---------------------------- MODULE Spec2Model ----------------------------
(***************************************************************************)
(* State-machine model of the text-to-speech synthesizers of zotero-zotts. *)
(*                                                                         *)
(* Three synthesizers are modelled, each with its own world record:        *)
(*   oai  - OpenAISynthesizer  (src/src/modules/tts/openai.ts)             *)
(*   loc  - LocalSynthesizer   (src/src/modules/tts/local.ts)              *)
(*   az   - AzureStreamingSynthesizer (src/addon/locale/en-US/tts.ftl)     *)
(*                                                                         *)
(* JavaScript runs one handler at a time: a handler runs from the event    *)
(* that starts it (a user command, a network completion, the audio         *)
(* element's ended event) up to the first await of a network operation;    *)
(* awaits of already settled promises only yield to micro-tasks.  Each     *)
(* action of the model is one such handler run, written as a function      *)
(* from world to world that follows the statements of the source.          *)
(*                                                                         *)
(* call holds one application of a function of the source that is studied  *)
(* on its own: its input and what it has returned so far.                  *)
(*                                                                         *)
(* In the orchestration models a text is measured in sections: the         *)
(* splitter's cursor counts the sections already handed out.               *)
(***************************************************************************)
EXTENDS Integers, Sequences, FiniteSets, TLC

VARIABLES oai, loc, az, call

vars == <<oai, loc, az, call>>

(***************************************************************************)
(* Bounds of the model.                                                    *)
(***************************************************************************)
MaxSections == 3
MaxOps == 2
\* the break marks (punctuation, line breaks, blanks) placed in a text
MaxMarks == 2

(***************************************************************************)
(* Inputs.                                                                 *)
(***************************************************************************)
Texts == {"A", "B"}
LocTexts == {"A", "C"}

\* number of sections the splitter cuts a text into ("" is the reset splitter)
NumSections(t) ==
    CASE t = "A" -> MaxSections
      [] t = "B" -> 1
      [] t = "C" -> 2
      [] OTHER -> 0

NoBlob == [none |-> TRUE]

\* no blob URL: what a field holding the URL of a blob holds when it is null
NoUrl == <<>>
NoCall == [fn |-> "none"]
NoCache == [none |-> TRUE]

Min(a, b) == IF a < b THEN a ELSE b
Max(a, b) == IF a > b THEN a ELSE b

\* String.trim on the values a preference takes in the model: the empty
\* string, a blank string, or a value without surrounding blanks
Trim(s) == IF s = " " THEN "" ELSE s

\* the taxonomy values of ErrorCodes
ErrorCodes ==
    {"config-incomplete", "auth-failed", "connection-failed",
     "rate-limited", "api-error"}

\* exported speak: the cause shown for a rejection
ErrorKey(error) == IF error \in ErrorCodes THEN error ELSE "other"

\* the audio the backend returns for a request
BlobOf(r) == [text |-> r.text, ord |-> r.ord, voice |-> r.voice, model |-> r.model]

\* JavaScript  arr[idx] = v  on a (possibly sparse) array, idx counted from 0
ArraySet(arr, idx, v) ==
    [i \in 1..Max(Len(arr), idx + 1) |->
        IF i = idx + 1 THEN v
        ELSE IF i <= Len(arr) THEN arr[i] ELSE NoBlob]

\* JavaScript  arr[idx]  (undefined is NoBlob)
ArrayGet(arr, idx) ==
    IF idx >= 0 /\ idx < Len(arr) THEN arr[idx + 1] ELSE NoBlob


(***************************************************************************)
(* OpenAI synthesizer: src/src/modules/tts/openai.ts                       *)
(***************************************************************************)
MAX_PREFETCH == 2

OaiInitWorld ==
    [ \* OpenAISynthesizer
      synthesizer |-> FALSE,
      isStopped |-> FALSE,
      abortController |-> "null",
      audioQueue |-> <<>>,
      prefetchInProgress |-> {},
      sessionCache |-> NoCache,
      currentSectionIndex |-> -1,
      nextCachedPlaybackIndex |-> 0,
      nextSectionIndex |-> 0,
      cachePlaybackActive |-> FALSE,
      \* TextSectionSplitter
      fullText |-> "",
      currentIndex |-> 0,
      isFirstSection |-> TRUE,
      \* AudioPlayer and its audio element
      isPlaying |-> FALSE,
      isPaused |-> FALSE,
      isInitialized |-> FALSE,
      currentBlobUrl |-> NoBlob,
      src |-> NoBlob,
      elPaused |-> TRUE,
      ended |-> FALSE,
      currentTime |-> 0,
      \* the blob URLs: the one this.currentBlobUrl holds, the one the element
      \* has as its source (which its onended handler has captured), the ones
      \* URL.createObjectURL has made and URL.revokeObjectURL has not revoked,
      \* the one whose play() promise is pending, the one whose play() promise
      \* has been rejected and whose catch callback has not run yet, and
      \* whether the element needs time to begin a playback (if not, the
      \* promise of play() has resolved when playAudio returns)
      currentUrl |-> NoUrl,
      srcUrl |-> NoUrl,
      liveUrls |-> {},
      playPromise |-> NoUrl,
      rejecting |-> NoUrl,
      slowStart |-> FALSE,
      \* addon.data.tts.state, preferences, notification sink
      state |-> "idle",
      apiKey |-> "sk",
      voice |-> "alloy",
      model |-> "tts-1",
      notifications |-> <<>>,
      \* requests the backend has not answered yet
      inflight |-> {},
      \* history: speak calls so far, what the current session handed to the
      \* player, whether the session began with a cache hit, whether stop()
      \* was the last of stop/speak/replaySection/skipBackward, whether the
      \* backend has failed a request, the errors with which requests for a
      \* first section were answered, how much had been handed to the player
      \* when the latest skipBackward or replaySection began a replay of the
      \* cache (-1: none since the latest speak or stop), and the commands
      \* given so far
      session |-> 0,
      playLog |-> <<>>,
      cacheHit |-> FALSE,
      afterStop |-> FALSE,
      failed |-> FALSE,
      firstErrors |-> <<>>,
      replayFrom |-> -1,
      ops |-> 0 ]

\* TextSectionSplitter.hasMore
OaiHasMore(w) == w.currentIndex < NumSections(w.fullText)

\* the section TextSectionSplitter.getNextSection returns
OaiSection(w) == [text |-> w.fullText, ord |-> w.currentIndex]

\* TextSectionSplitter.getNextSection: the cursor moves past one section
OaiGetNextSection(w) ==
    IF ~OaiHasMore(w) THEN w
    ELSE [w EXCEPT !.currentIndex = @ + 1, !.isFirstSection = FALSE]

\* TextSectionSplitter.initialize
OaiInitialize(w, text) ==
    [w EXCEPT !.fullText = text, !.currentIndex = 0, !.isFirstSection = TRUE]

\* TextSectionSplitter.reset
OaiSplitterReset(w) ==
    [w EXCEPT !.fullText = "", !.currentIndex = 0, !.isFirstSection = TRUE]

\* AudioPlayer.playAudio: the URL this.currentBlobUrl holds is revoked, a URL
\* is made for the blob and handed to the audio element, and the element is
\* played; the new source rejects a play() promise that is pending
OaiPlayAudio(w, blob) ==
    LET url == <<w.session, Len(w.playLog) + 1>>
    IN  [w EXCEPT !.isInitialized = TRUE,
                  !.isPlaying = TRUE,
                  !.state = "playing",
                  !.currentBlobUrl = blob,
                  !.src = blob,
                  !.elPaused = FALSE,
                  !.ended = FALSE,
                  !.currentTime = 0,
                  !.liveUrls = (@ \ {w.currentUrl}) \cup {url},
                  !.currentUrl = url,
                  !.srcUrl = url,
                  !.rejecting = IF w.playPromise # NoUrl THEN w.playPromise
                                ELSE @,
                  !.playPromise = IF w.slowStart THEN url ELSE NoUrl,
                  !.playLog = Append(@, [blob |-> blob,
                                         index |-> w.currentSectionIndex])]

\* AudioPlayer.playAudio, the catch callback of the play() promise of url
OaiPlayCatch(w, url) ==
    [w EXCEPT !.isPlaying = FALSE,
              !.liveUrls = @ \ {url},
              !.currentBlobUrl = NoBlob,
              !.currentUrl = NoUrl]

\* AudioPlayer.resetAudioState: the URL this.currentBlobUrl holds is revoked;
\* an element with a source is paused and unloaded, which rejects a play()
\* promise that is pending
OaiResetAudioState(w) ==
    [w EXCEPT !.isPlaying = FALSE,
              !.currentBlobUrl = NoBlob,
              !.liveUrls = @ \ {w.currentUrl},
              !.currentUrl = NoUrl,
              !.src = NoBlob,
              !.srcUrl = NoUrl,
              !.rejecting = IF w.src # NoBlob /\ w.playPromise # NoUrl
                            THEN w.playPromise ELSE @,
              !.playPromise = IF w.src # NoBlob THEN NoUrl ELSE @,
              !.elPaused = TRUE,
              !.ended = FALSE,
              !.currentTime = 0]

\* AudioPlayer.stop
OaiPlayerStop(w) ==
    [OaiResetAudioState(w) EXCEPT !.isPaused = FALSE, !.state = "idle"]

\* a pause that also sets the stopped flag of the synthesizer: the variant
\* against which pause() is shown to leave the session alone
OaiPlayerPauseStopping(w) ==
    IF w.isInitialized /\ w.isPlaying
    THEN [w EXCEPT !.elPaused = TRUE, !.isPaused = TRUE, !.state = "paused",
                   !.isStopped = TRUE]
    ELSE w

\* AudioPlayer.pause
OaiPlayerPause(w) ==
    IF w.isInitialized /\ w.isPlaying
    THEN [w EXCEPT !.elPaused = TRUE, !.isPaused = TRUE, !.state = "paused"]
    ELSE w

\* AudioPlayer.resume
OaiPlayerResume(w) ==
    IF w.isInitialized /\ w.isPaused
    THEN [w EXCEPT !.elPaused = FALSE, !.ended = FALSE,
                   !.isPaused = FALSE, !.state = "playing"]
    ELSE w

\* OpenAISynthesizer.clearQueue
OaiClearQueue(w) ==
    [w EXCEPT !.audioQueue = <<>>, !.prefetchInProgress = {}]

\* getOpenAIConfig: the key of the preferences (no environment variable is set)
OaiGetOpenAIConfig(w) ==
    LET prefKey == Trim(w.apiKey)
        apiKey == IF prefKey # "" THEN prefKey ELSE ""
    IN  Trim(apiKey)

\* exported speak: the catch of a rejected synth.speak(text)
OaiSpeakCatch(w, error) ==
    [w EXCEPT !.notifications = Append(@, ErrorKey(error)), !.state = "idle"]

\* a speakSection call rejects with error: the catch of its caller runs
OaiSpeakSectionFails(w, caller, error) ==
    IF caller = "speak" THEN OaiSpeakCatch(w, error)
    ELSE [OaiSplitterReset(w) EXCEPT !.state = "idle"]

\* OpenAISynthesizer.synthesizeToBlob up to its await of fetch: the request
\* is sent with the voice and model read from the preferences
OaiSynthesizeToBlob(w, fn, section, sectionIndex, caller) ==
    [w EXCEPT !.inflight = @ \cup
        {[fn |-> fn, text |-> section.text, ord |-> section.ord,
          index |-> sectionIndex, caller |-> caller,
          voice |-> w.voice, model |-> w.model,
          sess |-> w.session, aborted |-> FALSE]}]

\* OpenAISynthesizer.fetchSection up to its await
OaiFetchSection(w, section, sectionIndex) ==
    IF w.isStopped
    THEN [w EXCEPT !.prefetchInProgress = @ \ {sectionIndex}]
    ELSE IF OaiGetOpenAIConfig(w) = ""
    THEN [w EXCEPT !.prefetchInProgress = @ \ {sectionIndex}]
    ELSE OaiSynthesizeToBlob(w, "fetchSection", section, sectionIndex, "startPrefetching")

\* the loop of OpenAISynthesizer.startPrefetching
RECURSIVE OaiPrefetchLoop(_, _, _)
OaiPrefetchLoop(w, i, sectionsToFetch) ==
    IF i < sectionsToFetch /\ OaiHasMore(w)
    THEN LET sectionIndex == w.nextSectionIndex
             w1 == [w EXCEPT !.nextSectionIndex = @ + 1]
         IN  IF sectionIndex \notin w1.prefetchInProgress
             THEN LET w2 == [w1 EXCEPT !.prefetchInProgress = @ \cup {sectionIndex}]
                      section == OaiSection(w2)
                      w3 == OaiGetNextSection(w2)
                  IN  OaiPrefetchLoop(OaiFetchSection(w3, section, sectionIndex),
                                      i + 1, sectionsToFetch)
             ELSE OaiPrefetchLoop(w1, i + 1, sectionsToFetch)
    ELSE w

\* OpenAISynthesizer.startPrefetching
OaiStartPrefetching(w) ==
    OaiPrefetchLoop(w, 0,
        Min(MAX_PREFETCH - Len(w.audioQueue) - Cardinality(w.prefetchInProgress),
            MAX_PREFETCH))

\* OpenAISynthesizer.speakSection up to its await
OaiSpeakSection(w, section, sectionIndex, caller) ==
    IF w.isStopped THEN w
    ELSE LET w1 == [OaiResetAudioState(w) EXCEPT !.isInitialized = TRUE]
         IN  IF OaiGetOpenAIConfig(w1) = ""
             THEN OaiSpeakSectionFails(w1, caller, "config-incomplete")
             ELSE OaiSynthesizeToBlob(w1, "speakSection", section,
                                      sectionIndex, caller)

\* OpenAISynthesizer.playCachedSection; startIndex = -1 stands for undefined
OaiPlayCachedSection(w, startIndex) ==
    LET idle == [w EXCEPT !.cachePlaybackActive = FALSE, !.state = "idle"]
    IN
    IF w.sessionCache = NoCache THEN idle
    ELSE IF Len(w.sessionCache.sections) = 0 THEN idle
    ELSE
      LET n == Len(w.sessionCache.sections)
          w1 == IF startIndex >= 0
                THEN [w EXCEPT !.nextCachedPlaybackIndex =
                                  Max(0, Min(startIndex, n - 1))]
                ELSE w
          idle1 == [w1 EXCEPT !.cachePlaybackActive = FALSE, !.state = "idle"]
      IN
      IF w1.nextCachedPlaybackIndex < 0 \/ w1.nextCachedPlaybackIndex >= n
      THEN idle1
      ELSE
        LET audioBlob == ArrayGet(w1.sessionCache.sections, w1.nextCachedPlaybackIndex)
            indexToPlay == w1.nextCachedPlaybackIndex
        IN
        IF audioBlob = NoBlob THEN idle1
        ELSE OaiPlayAudio(
               [w1 EXCEPT !.currentSectionIndex = indexToPlay,
                          !.nextCachedPlaybackIndex = indexToPlay + 1,
                          !.cachePlaybackActive = TRUE],
               audioBlob)

\* the cache test of OpenAISynthesizer.speak
OaiCacheMatches(w, text) ==
    /\ w.sessionCache # NoCache
    /\ w.sessionCache.text = text
    /\ w.sessionCache.voice = w.voice
    /\ w.sessionCache.model = w.model

\* OpenAISynthesizer.speak up to its first await of the network
OaiSpeak(w, text) ==
    LET w1 == OaiClearQueue(OaiPlayerStop(w))
        w2 == [w1 EXCEPT !.currentSectionIndex = -1,
                         !.nextCachedPlaybackIndex = 0,
                         !.nextSectionIndex = 0,
                         !.cachePlaybackActive = FALSE]
    IN
    IF OaiCacheMatches(w2, text)
    THEN OaiPlayCachedSection([w2 EXCEPT !.isStopped = FALSE], -1)
    ELSE
      LET w3 == [OaiInitialize([w2 EXCEPT !.sessionCache = NoCache], text)
                   EXCEPT !.isStopped = FALSE]
          firstSection == OaiSection(w3)
          firstSectionIndex == w3.nextSectionIndex
          w4 == [OaiGetNextSection(w3) EXCEPT
                   !.nextSectionIndex = @ + 1,
                   !.sessionCache = [text |-> text, voice |-> w3.voice,
                                     model |-> w3.model, sections |-> <<>>]]
          w5 == IF OaiHasMore(w4) THEN OaiStartPrefetching(w4) ELSE w4
      IN  OaiSpeakSection(w5, firstSection, firstSectionIndex, "speak")

\* OpenAISynthesizer.stop
OaiStop(w) ==
    LET w1 == [w EXCEPT !.isStopped = TRUE, !.cachePlaybackActive = FALSE]
        w2 == IF w1.abortController # "null"
              THEN [w1 EXCEPT
                      !.inflight = {[r EXCEPT !.aborted = TRUE] : r \in w1.inflight},
                      !.abortController = "null"]
              ELSE w1
    IN  [OaiPlayerStop(OaiSplitterReset(OaiClearQueue(w2))) EXCEPT !.state = "idle"]


\* skipBackward without its first test, so that it goes to the previous cached
\* section even when the position allows a seek: the variant against which the
\* description of its branches is shown to depend on that test
OaiSkipBackwardNeverSeeking(w, currentTime) ==
    LET seek == IF w.isInitialized
                THEN [w EXCEPT !.currentTime = Max(0, currentTime - 10)]
                ELSE w
    IN
    IF /\ w.sessionCache # NoCache
       /\ w.currentSectionIndex > 0
       /\ ArrayGet(w.sessionCache.sections, w.currentSectionIndex - 1) # NoBlob
    THEN OaiPlayCachedSection([OaiPlayerStop(w) EXCEPT !.isStopped = FALSE],
                              w.currentSectionIndex - 1)
    ELSE seek

\* OpenAISynthesizer.skipBackward with AudioPlayer.getCurrentTime and
\* AudioPlayer.skipBackward(10); currentTime: the position the element has
\* reached when the command is given
OaiSkipBackward(w, currentTime) ==
    LET position == IF w.isInitialized THEN currentTime ELSE 0
        targetTime == position - 10
        seek == IF w.isInitialized
                THEN [w EXCEPT !.currentTime = Max(0, currentTime - 10)]
                ELSE w
    IN
    IF targetTime >= 0 THEN seek
    ELSE IF /\ w.sessionCache # NoCache
            /\ w.currentSectionIndex > 0
            /\ ArrayGet(w.sessionCache.sections, w.currentSectionIndex - 1) # NoBlob
    THEN OaiPlayCachedSection([OaiPlayerStop(w) EXCEPT !.isStopped = FALSE],
                              w.currentSectionIndex - 1)
    ELSE seek

\* OpenAISynthesizer.replaySection
OaiReplaySection(w) ==
    IF w.sessionCache # NoCache /\ Len(w.sessionCache.sections) > 0
    THEN OaiPlayCachedSection(
            [OaiPlayerStop(w) EXCEPT !.currentSectionIndex = -1,
                                     !.nextCachedPlaybackIndex = 0,
                                     !.isStopped = FALSE],
            -1)
    ELSE w

\* OpenAISynthesizer.onAudioComplete up to its await of the network
OaiOnAudioComplete(w) ==
    IF w.isStopped
    THEN [OaiSplitterReset(w) EXCEPT !.state = "idle"]
    ELSE IF /\ w.cachePlaybackActive
            /\ w.sessionCache # NoCache
            /\ w.nextCachedPlaybackIndex < Len(w.sessionCache.sections)
    THEN OaiPlayCachedSection(w, -1)
    ELSE
      LET w1 == [w EXCEPT !.cachePlaybackActive = FALSE]
      IN
      IF Len(w1.audioQueue) > 0
      THEN LET queuedAudio == Head(w1.audioQueue)
               w2 == [w1 EXCEPT !.audioQueue = Tail(@)]
               w3 == IF OaiHasMore(w2) THEN OaiStartPrefetching(w2) ELSE w2
           IN  OaiPlayAudio([w3 EXCEPT !.currentSectionIndex = queuedAudio.index],
                            queuedAudio.blob)
      ELSE IF OaiHasMore(w1)
      THEN LET nextSection == OaiSection(w1)
               nextSectionIndex == w1.nextSectionIndex
               w2 == [OaiGetNextSection(w1) EXCEPT !.nextSectionIndex = @ + 1]
           IN  OaiSpeakSection(w2, nextSection, nextSectionIndex, "onAudioComplete")
      ELSE [OaiSplitterReset(w1) EXCEPT !.state = "idle"]

\* AudioPlayer.playAudio, the element's onended handler
OaiOnEnded(w) ==
    OaiOnAudioComplete([w EXCEPT !.currentBlobUrl = NoBlob,
                                 !.liveUrls = @ \ {w.srcUrl},
                                 !.currentUrl = NoUrl,
                                 !.isPlaying = FALSE,
                                 !.elPaused = TRUE,
                                 !.ended = TRUE])

\* OpenAISynthesizer.speakSection after its await: the request r is answered
OaiSpeakSectionDone(w, r, outcome) ==
    IF outcome = "blob"
    THEN LET audioBlob == BlobOf(r)
             w1 == IF w.sessionCache # NoCache
                   THEN [w EXCEPT !.sessionCache.sections =
                                     ArraySet(@, r.index, audioBlob)]
                   ELSE w
         IN  IF w1.isStopped THEN w1
             ELSE OaiPlayAudio([w1 EXCEPT !.currentSectionIndex = r.index], audioBlob)
    ELSE IF outcome = "AbortError" THEN w
    ELSE OaiSpeakSectionFails(w, r.caller, outcome)

\* fetchSection's continuation with the test of isStopped left out: the variant
\* against which the stop properties are shown to depend on that test
OaiFetchSectionDoneIgnoringStop(w, r, outcome) ==
    IF outcome = "blob"
    THEN LET audioBlob == BlobOf(r)
             w1 == IF w.sessionCache # NoCache
                   THEN [w EXCEPT !.sessionCache.sections =
                                     ArraySet(@, r.index, audioBlob)]
                   ELSE w
         IN  [w1 EXCEPT !.audioQueue =
                           Append(@, [blob |-> audioBlob,
                                      section |-> <<r.text, r.ord>>,
                                      index |-> r.index]),
                        !.prefetchInProgress = @ \ {r.index}]
    ELSE [w EXCEPT !.prefetchInProgress = @ \ {r.index}]

\* fetchSection's continuation with a failed prefetch reported like a failed
\* speak: the variant against which the count of notifications is shown to
\* depend on startPrefetching's own catch
OaiFetchSectionDoneNotifying(w, r, outcome) ==
    IF outcome = "blob"
    THEN LET audioBlob == BlobOf(r)
             w1 == IF w.sessionCache # NoCache
                   THEN [w EXCEPT !.sessionCache.sections =
                                     ArraySet(@, r.index, audioBlob)]
                   ELSE w
         IN  IF w1.isStopped
             THEN [w1 EXCEPT !.prefetchInProgress = @ \ {r.index}]
             ELSE [w1 EXCEPT !.audioQueue =
                                Append(@, [blob |-> audioBlob,
                                           section |-> <<r.text, r.ord>>,
                                           index |-> r.index]),
                             !.prefetchInProgress = @ \ {r.index}]
    ELSE OaiSpeakCatch([w EXCEPT !.prefetchInProgress = @ \ {r.index}], outcome)

\* OpenAISynthesizer.fetchSection after its await: the request r is answered
OaiFetchSectionDone(w, r, outcome) ==
    IF outcome = "blob"
    THEN LET audioBlob == BlobOf(r)
             w1 == IF w.sessionCache # NoCache
                   THEN [w EXCEPT !.sessionCache.sections =
                                     ArraySet(@, r.index, audioBlob)]
                   ELSE w
         IN  IF w1.isStopped
             THEN [w1 EXCEPT !.prefetchInProgress = @ \ {r.index}]
             ELSE [w1 EXCEPT !.audioQueue =
                                Append(@, [blob |-> audioBlob,
                                           section |-> <<r.text, r.ord>>,
                                           index |-> r.index]),
                             !.prefetchInProgress = @ \ {r.index}]
    ELSE [w EXCEPT !.prefetchInProgress = @ \ {r.index}]

\* what fetch can answer to request r
BackendErrors == {"api-error"}

OaiOutcomes(w, r) ==
    IF r.aborted THEN {"AbortError"}
    ELSE {"blob"} \cup BackendErrors

(***************************************************************************)
(* Actions of the OpenAI synthesizer.                                      *)
(***************************************************************************)
\* The commands that start or end playback (speak, stop, skipBackward,
\* replaySection) are counted against the budget of commands when they change
\* something; pause and resume only toggle the player and are not counted.
Counted(w) == [w EXCEPT !.ops = @ + 1]

\* the history kept of a skipBackward or replaySection that led from before
\* to after: a replay of the cache has begun if something was handed to the
\* player
Replayed(before, after) ==
    [after EXCEPT !.afterStop = FALSE,
                  !.replayFrom = IF after.playLog # before.playLog
                                 THEN Len(before.playLog) ELSE @]

\* the positions (seconds) an element that is playing, paused or at its end
\* can have reached; an element that has not played since its position was
\* last set is where it was put
ElementPositions(w) ==
    IF w.src # NoBlob /\ (w.isPlaying \/ w.ended) THEN {0, 3, 10, 13}
    ELSE {w.currentTime}

\* exported speak(text) with a text of the given set
OaiUserSpeakOf(texts) ==
    /\ oai.ops < MaxOps
    /\ \E text \in texts :
         oai' = Counted(OaiSpeak([oai EXCEPT
                                       !.synthesizer = TRUE,
                                       !.session = @ + 1,
                                       !.playLog = <<>>,
                                       !.cacheHit = OaiCacheMatches(oai, text),
                                       !.afterStop = FALSE,
                                       !.replayFrom = -1],
                                    text))
    /\ UNCHANGED <<loc, az, call>>

OaiUserSpeak == OaiUserSpeakOf(Texts)

\* speak with texts of three, two and one sections
OaiUserSpeakAnyText == OaiUserSpeakOf(Texts \cup LocTexts)

OaiUserStop ==
    /\ oai.ops < MaxOps
    /\ oai.synthesizer
    /\ LET w == [OaiStop(oai) EXCEPT !.afterStop = TRUE, !.replayFrom = -1]
       IN  w # oai /\ oai' = Counted(w)
    /\ UNCHANGED <<loc, az, call>>

OaiUserPause ==
    /\ oai.synthesizer
    /\ OaiPlayerPause(oai) # oai
    /\ oai' = OaiPlayerPause(oai)
    /\ UNCHANGED <<loc, az, call>>

OaiUserResume ==
    /\ oai.synthesizer
    /\ OaiPlayerResume(oai) # oai
    /\ oai' = OaiPlayerResume(oai)
    /\ UNCHANGED <<loc, az, call>>

OaiUserSkipBackward ==
    /\ oai.ops < MaxOps
    /\ oai.synthesizer
    /\ \E currentTime \in ElementPositions(oai) :
         LET w == OaiSkipBackward(oai, currentTime)
         IN  w # oai /\ oai' = Counted(Replayed(oai, w))
    /\ UNCHANGED <<loc, az, call>>

OaiUserReplaySection ==
    /\ oai.ops < MaxOps
    /\ oai.synthesizer
    /\ LET w == OaiReplaySection(oai)
       IN  w # oai /\ oai' = Counted(Replayed(oai, w))
    /\ UNCHANGED <<loc, az, call>>

\* the audio element reaches the end of its source
OaiPlaybackEnded ==
    /\ oai.src # NoBlob
    /\ ~oai.elPaused
    /\ ~oai.ended
    /\ oai' = OaiOnEnded(oai)
    /\ UNCHANGED <<loc, az, call>>

\* the backend answers a request
OaiRequestDone ==
    /\ \E r \in oai.inflight :
         \E outcome \in OaiOutcomes(oai, r) :
           LET w == [oai EXCEPT !.inflight = @ \ {r},
                                !.failed = @ \/ outcome \in BackendErrors,
                                !.firstErrors =
                                    IF /\ r.fn = "speakSection"
                                       /\ r.caller = "speak"
                                       /\ outcome \in BackendErrors
                                    THEN Append(@, outcome) ELSE @]
           IN  oai' = IF r.fn = "speakSection"
                      THEN OaiSpeakSectionDone(w, r, outcome)
                      ELSE OaiFetchSectionDone(w, r, outcome)
    /\ UNCHANGED <<loc, az, call>>

OaiNext ==
    \/ OaiUserSpeak
    \/ OaiUserStop
    \/ OaiUserPause
    \/ OaiUserResume
    \/ OaiUserSkipBackward
    \/ OaiUserReplaySection
    \/ OaiPlaybackEnded
    \/ OaiRequestDone

(***************************************************************************)
(* Local synthesizer: src/src/modules/tts/local.ts                         *)
(***************************************************************************)
LocInitWorld ==
    [ \* LocalSynthesizer
      synthesizer |-> FALSE,
      isStopped |-> FALSE,
      abortController |-> "null",
      audioQueue |-> <<>>,
      prefetchInProgress |-> {},
      sessionCache |-> NoCache,
      currentSectionIndex |-> -1,
      nextCachedPlaybackIndex |-> 0,
      cachePlaybackActive |-> FALSE,
      \* TextSectionSplitter
      fullText |-> "",
      currentIndex |-> 0,
      \* AudioPlayer and its audio element
      isPlaying |-> FALSE,
      isPaused |-> FALSE,
      isInitialized |-> FALSE,
      currentBlobUrl |-> NoBlob,
      src |-> NoBlob,
      elPaused |-> TRUE,
      ended |-> FALSE,
      currentTime |-> 0,
      \* addon.data.tts.state, preferences, notification sink
      state |-> "idle",
      apiUrl |-> "http://host:8880",
      notifications |-> <<>>,
      \* requests the backend has not answered yet
      inflight |-> {},
      \* history: speak calls so far and the text of the latest, what has been
      \* handed to the player since, whether stop() was the last of
      \* stop/speak/replaySection/skipBackward, how much had been handed to
      \* the player when the latest skipBackward or replaySection began a
      \* replay of the cache, and the commands given so far
      session |-> 0,
      spoken |-> "",
      playLog |-> <<>>,
      afterStop |-> FALSE,
      replayFrom |-> -1,
      ops |-> 0 ]

\* TextSectionSplitter.hasMore
LocHasMore(w) == w.currentIndex < NumSections(w.fullText)

\* the section TextSectionSplitter.getNextSection returns
LocSection(w) == [text |-> w.fullText, ord |-> w.currentIndex]

\* TextSectionSplitter.getNextSection
LocGetNextSection(w) ==
    IF ~LocHasMore(w) THEN w ELSE [w EXCEPT !.currentIndex = @ + 1]

\* TextSectionSplitter.initialize
LocInitialize(w, text) == [w EXCEPT !.fullText = text, !.currentIndex = 0]

\* TextSectionSplitter.reset
LocSplitterReset(w) == [w EXCEPT !.fullText = "", !.currentIndex = 0]

\* AudioPlayer.playAudio
LocPlayAudio(w, blob) ==
    [w EXCEPT !.isInitialized = TRUE,
              !.isPlaying = TRUE,
              !.state = "playing",
              !.currentBlobUrl = blob,
              !.src = blob,
              !.elPaused = FALSE,
              !.ended = FALSE,
              !.currentTime = 0,
              !.playLog = Append(@, [blob |-> blob,
                                     index |-> w.currentSectionIndex])]

\* AudioPlayer.stop: the element is paused and rewound, its source stays
LocPlayerStop(w) ==
    IF w.isInitialized
    THEN [w EXCEPT !.elPaused = TRUE, !.ended = FALSE, !.currentTime = 0,
                   !.isPlaying = FALSE,
                   !.isPaused = FALSE, !.currentBlobUrl = NoBlob]
    ELSE w

\* AudioPlayer.pause
LocPlayerPause(w) ==
    IF w.isInitialized /\ w.isPlaying
    THEN [w EXCEPT !.elPaused = TRUE, !.isPaused = TRUE, !.state = "paused"]
    ELSE w

\* AudioPlayer.resume
LocPlayerResume(w) ==
    IF w.isInitialized /\ w.isPaused
    THEN [w EXCEPT !.elPaused = FALSE, !.ended = FALSE,
                   !.isPaused = FALSE, !.state = "playing"]
    ELSE w

\* LocalSynthesizer.clearQueue
LocClearQueue(w) ==
    [w EXCEPT !.audioQueue = <<>>, !.prefetchInProgress = {}]

\* getLocalConfig
LocGetLocalConfig(w) ==
    Trim(IF w.apiUrl # "" THEN w.apiUrl ELSE "http://localhost:8880")

\* exported speak: the catch of a rejected synth.speak(text)
LocSpeakCatch(w, error) ==
    [w EXCEPT !.notifications = Append(@, ErrorKey(error)), !.state = "idle"]

\* a synthesizeAndPlay call rejects with error: the catch of its caller runs
LocSynthesizeAndPlayFails(w, caller, error) ==
    IF caller = "speak" THEN LocSpeakCatch(w, error) ELSE w

\* LocalSynthesizer.synthesizeToBlob up to its await of fetch; chain is the
\* text of the speak() whose calls led to this request
LocSynthesizeToBlob(w, fn, section, nextIndex, caller, chain) ==
    [w EXCEPT !.inflight = @ \cup
        {[fn |-> fn, text |-> section.text, ord |-> section.ord,
          index |-> nextIndex, caller |-> caller, chain |-> chain,
          voice |-> "bm_fable", model |-> "tts-1",
          sess |-> w.session, aborted |-> FALSE]}]

\* LocalSynthesizer.synthesizeAndPlay up to its await
LocSynthesizeAndPlay(w, caller, chain) ==
    IF w.isStopped THEN w
    ELSE IF ~LocHasMore(w) THEN w
    ELSE IF LocGetLocalConfig(w) = ""
    THEN LocSynthesizeAndPlayFails(LocGetNextSection(w), caller,
                                   "config-incomplete")
    ELSE LocSynthesizeToBlob(LocGetNextSection(w), "synthesizeAndPlay",
                             LocSection(w), -1, caller, chain)

\* LocalSynthesizer.prefetchNext up to the request it sends
LocPrefetchNext(w, chain) ==
    LET nextIndex == IF w.sessionCache # NoCache
                     THEN Len(w.sessionCache.sections) ELSE 0
    IN  IF nextIndex \in w.prefetchInProgress THEN w
        ELSE IF ~LocHasMore(w) THEN w
        ELSE IF LocGetLocalConfig(w) = "" THEN LocGetNextSection(w)
        ELSE LocSynthesizeToBlob(
                [LocGetNextSection(w) EXCEPT !.prefetchInProgress = @ \cup {nextIndex}],
                "prefetchNext", LocSection(w), nextIndex, "prefetchNext", chain)

\* LocalSynthesizer.playCachedSection; startIndex = -1 stands for undefined
LocPlayCachedSection(w, startIndex) ==
    LET idle == [w EXCEPT !.cachePlaybackActive = FALSE, !.state = "idle"]
    IN
    IF w.sessionCache = NoCache THEN idle
    ELSE IF Len(w.sessionCache.sections) = 0 THEN idle
    ELSE
      LET n == Len(w.sessionCache.sections)
          w1 == IF startIndex >= 0
                THEN [w EXCEPT !.nextCachedPlaybackIndex =
                                  Max(0, Min(startIndex, n - 1))]
                ELSE w
          idle1 == [w1 EXCEPT !.cachePlaybackActive = FALSE, !.state = "idle"]
      IN
      IF w1.nextCachedPlaybackIndex < 0 \/ w1.nextCachedPlaybackIndex >= n
      THEN idle1
      ELSE
        LET audioBlob == ArrayGet(w1.sessionCache.sections, w1.nextCachedPlaybackIndex)
            indexToPlay == w1.nextCachedPlaybackIndex
        IN
        IF audioBlob = NoBlob THEN idle1
        ELSE LocPlayAudio(
               [w1 EXCEPT !.currentSectionIndex = indexToPlay,
                          !.nextCachedPlaybackIndex = indexToPlay + 1,
                          !.cachePlaybackActive = TRUE],
               audioBlob)

\* LocalSynthesizer.speak up to its await of the network
LocSpeak(w, text) ==
    LET w1 == [LocInitialize(w, text) EXCEPT
                 !.isInitialized = TRUE,
                 !.isStopped = FALSE,
                 !.sessionCache = [sections |-> <<>>],
                 !.currentSectionIndex = -1,
                 !.nextCachedPlaybackIndex = 0,
                 !.cachePlaybackActive = FALSE]
    IN  LocSynthesizeAndPlay(w1, "speak", text)

\* LocalSynthesizer.stop
LocStop(w) ==
    LET w1 == [w EXCEPT !.isStopped = TRUE]
        w2 == IF w1.abortController # "null"
              THEN [w1 EXCEPT
                      !.inflight = {[r EXCEPT !.aborted = TRUE] : r \in w1.inflight},
                      !.abortController = "null"]
              ELSE w1
    IN  [LocPlayerStop(LocSplitterReset(LocClearQueue(w2))) EXCEPT !.state = "idle"]

\* LocalSynthesizer.skipBackward with AudioPlayer.getCurrentTime and
\* AudioPlayer.skipBackward(10); currentTime: the position the element has
\* reached when the command is given
LocSkipBackward(w, currentTime) ==
    LET position == IF w.isInitialized THEN currentTime ELSE 0
        targetTime == position - 10
        seek == IF w.isInitialized
                THEN [w EXCEPT !.currentTime = Max(0, currentTime - 10)]
                ELSE w
    IN
    IF targetTime >= 0 THEN seek
    ELSE IF /\ w.sessionCache # NoCache
            /\ w.currentSectionIndex > 0
            /\ ArrayGet(w.sessionCache.sections, w.currentSectionIndex - 1) # NoBlob
    THEN LocPlayCachedSection([LocPlayerStop(w) EXCEPT !.isStopped = FALSE],
                              w.currentSectionIndex - 1)
    ELSE seek

\* LocalSynthesizer.replaySection
LocReplaySection(w) ==
    IF w.sessionCache # NoCache /\ Len(w.sessionCache.sections) > 0
    THEN LocPlayCachedSection(
            [LocPlayerStop(w) EXCEPT !.currentSectionIndex = -1,
                                     !.nextCachedPlaybackIndex = 0,
                                     !.isStopped = FALSE],
            -1)
    ELSE w

\* LocalSynthesizer.onAudioComplete up to its await of the network
LocOnAudioComplete(w) ==
    IF w.isStopped
    THEN [LocSplitterReset(w) EXCEPT !.state = "idle"]
    ELSE IF /\ w.cachePlaybackActive
            /\ w.sessionCache # NoCache
            /\ w.nextCachedPlaybackIndex < Len(w.sessionCache.sections)
    THEN LocPlayCachedSection(w, -1)
    ELSE
      LET w1 == [w EXCEPT !.cachePlaybackActive = FALSE]
      IN
      IF Len(w1.audioQueue) > 0
      THEN LocPlayAudio([w1 EXCEPT !.audioQueue = Tail(@),
                                   !.currentSectionIndex = @ + 1],
                        Head(w1.audioQueue))
      ELSE IF LocHasMore(w1)
      THEN LocSynthesizeAndPlay(w1, "onAudioComplete", w1.spoken)
      ELSE [w1 EXCEPT !.state = "idle"]

\* AudioPlayer.playAudio, the element's onended handler
LocOnEnded(w) ==
    LocOnAudioComplete([w EXCEPT !.currentBlobUrl = NoBlob,
                                 !.isPlaying = FALSE,
                                 !.elPaused = TRUE,
                                 !.ended = TRUE])

\* LocalSynthesizer.synthesizeAndPlay after its await: request r is answered
LocSynthesizeAndPlayDone(w, r, outcome) ==
    IF outcome = "blob"
    THEN LET audioBlob == BlobOf(r)
             w1 == IF w.sessionCache # NoCache
                   THEN [w EXCEPT !.sessionCache.sections = Append(@, audioBlob),
                                  !.currentSectionIndex =
                                      Len(w.sessionCache.sections)]
                   ELSE w
             w2 == LocPlayAudio(w1, audioBlob)
         IN  IF LocHasMore(w2) THEN LocPrefetchNext(w2, r.chain) ELSE w2
    ELSE LocSynthesizeAndPlayFails(w, r.caller, outcome)

\* LocalSynthesizer.prefetchNext, the handlers of its request r
LocPrefetchNextDone(w, r, outcome) ==
    IF outcome = "blob"
    THEN LET audioBlob == BlobOf(r)
             w1 == IF ~w.isStopped
                   THEN LET w2 == [w EXCEPT !.audioQueue = Append(@, audioBlob)]
                            w3 == IF w2.sessionCache # NoCache
                                  THEN [w2 EXCEPT !.sessionCache.sections =
                                                     Append(@, audioBlob)]
                                  ELSE w2
                        IN  IF LocHasMore(w3) THEN LocPrefetchNext(w3, r.chain)
                            ELSE w3
                   ELSE w
         IN  [w1 EXCEPT !.prefetchInProgress = @ \ {r.index}]
    ELSE [w EXCEPT !.prefetchInProgress = @ \ {r.index}]

LocOutcomes(w, r) ==
    IF r.aborted THEN {"AbortError"}
    ELSE {"blob"} \cup BackendErrors

(***************************************************************************)
(* Actions of the Local synthesizer.                                       *)
(***************************************************************************)
LocUserSpeak ==
    /\ loc.ops < MaxOps
    /\ \E text \in LocTexts :
         loc' = Counted(LocSpeak([loc EXCEPT
                                       !.synthesizer = TRUE,
                                       !.session = @ + 1,
                                       !.spoken = text,
                                       !.playLog = <<>>,
                                       !.afterStop = FALSE,
                                       !.replayFrom = -1],
                                    text))
    /\ UNCHANGED <<oai, az, call>>

LocUserStop ==
    /\ loc.ops < MaxOps
    /\ loc.synthesizer
    /\ LET w == [LocStop(loc) EXCEPT !.afterStop = TRUE, !.replayFrom = -1]
       IN  w # loc /\ loc' = Counted(w)
    /\ UNCHANGED <<oai, az, call>>

LocUserPause ==
    /\ loc.synthesizer
    /\ LocPlayerPause(loc) # loc
    /\ loc' = LocPlayerPause(loc)
    /\ UNCHANGED <<oai, az, call>>

LocUserResume ==
    /\ loc.synthesizer
    /\ LocPlayerResume(loc) # loc
    /\ loc' = LocPlayerResume(loc)
    /\ UNCHANGED <<oai, az, call>>

LocUserSkipBackward ==
    /\ loc.ops < MaxOps
    /\ loc.synthesizer
    /\ \E currentTime \in ElementPositions(loc) :
         LET w == LocSkipBackward(loc, currentTime)
         IN  w # loc /\ loc' = Counted(Replayed(loc, w))
    /\ UNCHANGED <<oai, az, call>>

LocUserReplaySection ==
    /\ loc.ops < MaxOps
    /\ loc.synthesizer
    /\ LET w == LocReplaySection(loc)
       IN  w # loc /\ loc' = Counted(Replayed(loc, w))
    /\ UNCHANGED <<oai, az, call>>

\* the audio element reaches the end of its source
LocPlaybackEnded ==
    /\ loc.src # NoBlob
    /\ ~loc.elPaused
    /\ ~loc.ended
    /\ loc' = LocOnEnded(loc)
    /\ UNCHANGED <<oai, az, call>>

\* the backend answers a request
LocRequestDone ==
    /\ \E r \in loc.inflight :
         \E outcome \in LocOutcomes(loc, r) :
           LET w == [loc EXCEPT !.inflight = @ \ {r}]
           IN  loc' = IF r.fn = "synthesizeAndPlay"
                      THEN LocSynthesizeAndPlayDone(w, r, outcome)
                      ELSE LocPrefetchNextDone(w, r, outcome)
    /\ UNCHANGED <<oai, az, call>>

LocNext ==
    \/ LocUserSpeak
    \/ LocUserStop
    \/ LocUserPause
    \/ LocUserResume
    \/ LocUserSkipBackward
    \/ LocUserReplaySection
    \/ LocPlaybackEnded
    \/ LocRequestDone

(***************************************************************************)
(* Azure streaming synthesizer: src/addon/locale/en-US/tts.ftl             *)
(*                                                                         *)
(* The synthesizer talks to the service over one WebSocket.  wire holds    *)
(* the messages the service has still to deliver on it, in order.  An      *)
(* audio message carries whole Ogg pages: hdr tells whether it begins with *)
(* the OpusHead and OpusTags pages, len is its length in bytes and size    *)
(* the length of what follows the header pages.  speak() is not called     *)
(* while the socket is still being opened.                                 *)
(***************************************************************************)
MIN_SEGMENT_SIZE == 8 * 1024
MAX_QUEUE_SIZE == 10 * 1024 * 1024

NoWaiter == [none |-> TRUE]
NoTurn == <<0, 0>>

\* the audio messages the service may answer a section with
AzStreams ==
    { << [hdr |-> TRUE, len |-> 256, size |-> 0],
         [hdr |-> FALSE, len |-> 16384, size |-> 16384],
         [hdr |-> FALSE, len |-> 4096, size |-> 4096] >>,
      << [hdr |-> TRUE, len |-> 4352, size |-> 4096] >> }

\* more answers: the header pages with two or one MIN_SEGMENT_SIZE of audio
\* in one message, one and a half MIN_SEGMENT_SIZE in two messages, and no
\* audio at all
AzLiveStreams ==
    AzStreams \cup
    { << [hdr |-> TRUE, len |-> 16640, size |-> 16384] >>,
      << [hdr |-> TRUE, len |-> 8448, size |-> 8192] >>,
      << [hdr |-> TRUE, len |-> 256, size |-> 0],
         [hdr |-> FALSE, len |-> 8192, size |-> 8192],
         [hdr |-> FALSE, len |-> 4096, size |-> 4096] >>,
      << [hdr |-> TRUE, len |-> 256, size |-> 0] >> }

AzInitWorld ==
    [ \* AzureStreamingSynthesizer
      synthesizer |-> FALSE,
      ws |-> "null",
      isConnected |-> FALSE,
      isStopped |-> FALSE,
      turnStart |-> NoTurn,
      \* TextSectionSplitter
      fullText |-> "",
      currentIndex |-> 0,
      \* AudioPlayer and its audio element
      audioQueue |-> <<>>,
      isPlaying |-> FALSE,
      isPaused |-> FALSE,
      isInitialized |-> FALSE,
      isSynthesisComplete |-> FALSE,
      headersExtracted |-> FALSE,
      src |-> NoBlob,
      elPaused |-> TRUE,
      ended |-> FALSE,
      \* OggSegmenter
      headersParsed |-> FALSE,
      opusHeadPage |-> NoTurn,
      opusTagsPage |-> NoTurn,
      \* addon.data.tts.state, preferences, notification sink
      state |-> "idle",
      subscriptionKey |-> "key",
      region |-> "westeurope",
      language |-> "en-US",
      voice |-> "en-US-AvaNeural",
      notifications |-> <<>>,
      \* the speakSection call suspended in connect(), the speakSection calls
      \* suspended in the wait for turn.start, the messages to be delivered
      connecting |-> NoWaiter,
      waiters |-> {},
      wire |-> <<>>,
      \* the sockets that disconnect() has closed and whose close event has
      \* not arrived yet
      closing |-> 0,
      \* history: speak calls so far, the segments handed to the audio
      \* element since the latest, the turn of the latest turn.end handled
      \* while not stopped, the turns of the segments at whose end
      \* onAllSegmentsComplete was called since the latest speak call, the
      \* messages sent on the open socket since the latest speak call, whether
      \* stop() was the last of stop and speak, and the commands given so far
      session |-> 0,
      playLog |-> <<>>,
      turnEnd |-> NoTurn,
      completions |-> <<>>,
      outbox |-> <<>>,
      afterStop |-> FALSE,
      ops |-> 0 ]

\* TextSectionSplitter.hasMore
AzHasMore(w) == w.currentIndex < NumSections(w.fullText)

\* the section TextSectionSplitter.getNextSection returns
AzSection(w) == [text |-> w.fullText, ord |-> w.currentIndex]

\* TextSectionSplitter.getNextSection
AzGetNextSection(w) ==
    IF ~AzHasMore(w) THEN w ELSE [w EXCEPT !.currentIndex = @ + 1]

\* TextSectionSplitter.initialize
AzInitialize(w, text) == [w EXCEPT !.fullText = text, !.currentIndex = 0]

\* TextSectionSplitter.reset
AzSplitterReset(w) == [w EXCEPT !.fullText = "", !.currentIndex = 0]

\* OggSegmenter.processChunk: the state it leaves
AzProcessChunk(w, chunk) ==
    IF w.headersParsed THEN w
    ELSE IF chunk.hdr
    THEN [w EXCEPT !.opusHeadPage = chunk.turn,
                   !.opusTagsPage = chunk.turn,
                   !.headersParsed = TRUE]
    ELSE w

\* OggSegmenter.processChunk: the data it returns (NoBlob is null)
AzRemainingData(w, chunk) ==
    IF w.headersParsed THEN chunk
    ELSE IF chunk.hdr /\ chunk.size > 0
    THEN [hdr |-> FALSE, len |-> chunk.size, size |-> chunk.size,
          turn |-> chunk.turn]
    ELSE NoBlob

\* OggSegmenter.reset
AzSegmenterReset(w) ==
    [w EXCEPT !.headersParsed = FALSE,
              !.opusHeadPage = NoTurn,
              !.opusTagsPage = NoTurn]

\* OggSegmenter.createSegment
AzCreateSegment(w, chunks) ==
    IF w.opusHeadPage = NoTurn \/ w.opusTagsPage = NoTurn
    THEN [empty |-> TRUE]
    ELSE [head |-> w.opusHeadPage, tags |-> w.opusTagsPage, audio |-> chunks]

\* the bytes waiting in a queue of chunks
RECURSIVE AzQueuedSize(_)
AzQueuedSize(q) == IF q = <<>> THEN 0 ELSE Head(q).len + AzQueuedSize(Tail(q))

\* AudioPlayer.playSegment: how many chunks reach MIN_SEGMENT_SIZE
RECURSIVE AzChunkCount(_, _, _)
AzChunkCount(q, chunkCount, segmentSize) ==
    IF chunkCount >= Len(q) THEN chunkCount
    ELSE IF segmentSize + q[chunkCount + 1].len >= MIN_SEGMENT_SIZE
    THEN chunkCount + 1
    ELSE AzChunkCount(q, chunkCount + 1, segmentSize + q[chunkCount + 1].len)

\* a playSegment that does not test whether a segment is playing: the variant
\* against which the rule of one segment at a time is shown to depend on that
\* test
AzPlaySegmentOverlapping(w) ==
    IF Len(w.audioQueue) = 0 \/ w.isPaused THEN w
    ELSE
      LET remainingSize == AzQueuedSize(w.audioQueue) - MIN_SEGMENT_SIZE
          n == IF w.isSynthesisComplete \/ remainingSize < MIN_SEGMENT_SIZE
               THEN Len(w.audioQueue)
               ELSE AzChunkCount(w.audioQueue, 0, 0)
          chunksToPlay == SubSeq(w.audioQueue, 1, n)
          segment == AzCreateSegment(w, chunksToPlay)
          playable == segment # [empty |-> TRUE]
      IN  [w EXCEPT !.audioQueue = SubSeq(@, n + 1, Len(@)),
                    !.isPlaying = playable,
                    !.src = segment,
                    !.elPaused = ~playable,
                    !.ended = FALSE,
                    !.playLog = Append(@, segment)]

\* AudioPlayer.playSegment
AzPlaySegment(w) ==
    IF Len(w.audioQueue) = 0 \/ w.isPaused \/ w.isPlaying THEN w
    ELSE
      LET remainingSize == AzQueuedSize(w.audioQueue) - MIN_SEGMENT_SIZE
          n == IF w.isSynthesisComplete \/ remainingSize < MIN_SEGMENT_SIZE
               THEN Len(w.audioQueue)
               ELSE AzChunkCount(w.audioQueue, 0, 0)
          chunksToPlay == SubSeq(w.audioQueue, 1, n)
          segment == AzCreateSegment(w, chunksToPlay)
          playable == segment # [empty |-> TRUE]
      IN  [w EXCEPT !.audioQueue = SubSeq(@, n + 1, Len(@)),
                    !.isPlaying = playable,
                    !.src = segment,
                    !.elPaused = ~playable,
                    !.ended = FALSE,
                    !.playLog = Append(@, segment)]

\* a tryPlayNextSegment that waits for a full segment also when synthesis is
\* complete
AzTryPlayNextSegmentDeferring(w) ==
    IF w.isPlaying \/ w.isPaused \/ Len(w.audioQueue) = 0 THEN w
    ELSE IF AzQueuedSize(w.audioQueue) > MIN_SEGMENT_SIZE
    THEN AzPlaySegment(w) ELSE w

\* a tryPlayNextSegment that starts a segment as soon as one minimum segment
\* is queued, whatever would remain: the variant against which the start rule
\* is shown to depend on the test of the remainder
AzTryPlayNextSegmentEager(w) ==
    IF w.isPlaying \/ w.isPaused \/ Len(w.audioQueue) = 0 THEN w
    ELSE
      LET queuedSize == AzQueuedSize(w.audioQueue)
          shouldPlay ==
              IF w.isSynthesisComplete
              THEN queuedSize > 0
              ELSE queuedSize >= MIN_SEGMENT_SIZE
      IN  IF shouldPlay THEN AzPlaySegment(w) ELSE w

\* AudioPlayer.tryPlayNextSegment
AzTryPlayNextSegment(w) ==
    IF w.isPlaying \/ w.isPaused \/ Len(w.audioQueue) = 0 THEN w
    ELSE
      LET queuedSize == AzQueuedSize(w.audioQueue)
          remainingSize == queuedSize - MIN_SEGMENT_SIZE
          shouldPlay ==
              IF w.isSynthesisComplete
              THEN queuedSize > 0
              ELSE queuedSize >= MIN_SEGMENT_SIZE /\ remainingSize >= MIN_SEGMENT_SIZE
      IN  IF shouldPlay THEN AzPlaySegment(w) ELSE w

\* a queueAudioChunk without the test of the queue size: the variant against
\* which the bound of the queue is shown to depend on that test
AzQueueAudioChunkUnbounded(w, audioData) ==
    LET w0 == [w EXCEPT !.isInitialized = TRUE]
    IN
    IF ~w0.headersExtracted
    THEN LET remainingData == AzRemainingData(w0, audioData)
             w1 == AzProcessChunk(w0, audioData)
         IN  IF w1.headersParsed
             THEN LET w2 == [w1 EXCEPT !.headersExtracted = TRUE]
                      w3 == IF remainingData # NoBlob /\ remainingData.len > 0
                            THEN [w2 EXCEPT !.audioQueue = Append(@, remainingData)]
                            ELSE w2
                  IN  AzTryPlayNextSegment(w3)
             ELSE w1
    ELSE AzTryPlayNextSegment([w0 EXCEPT !.audioQueue = Append(@, audioData)])

\* a queueAudioChunk that does not queue the audio that follows the header
\* pages in the chunk that completes them: the variant against which no
\* queued byte is shown to be skipped
AzQueueAudioChunkHeadersOnly(w, audioData) ==
    LET w0 == [w EXCEPT !.isInitialized = TRUE]
    IN
    IF AzQueuedSize(w0.audioQueue) + audioData.len > MAX_QUEUE_SIZE THEN w0
    ELSE IF ~w0.headersExtracted
    THEN LET w1 == AzProcessChunk(w0, audioData)
         IN  IF w1.headersParsed
             THEN AzTryPlayNextSegment([w1 EXCEPT !.headersExtracted = TRUE])
             ELSE w1
    ELSE AzTryPlayNextSegment([w0 EXCEPT !.audioQueue = Append(@, audioData)])

\* AudioPlayer.queueAudioChunk
AzQueueAudioChunk(w, audioData) ==
    LET w0 == [w EXCEPT !.isInitialized = TRUE]
    IN
    IF AzQueuedSize(w0.audioQueue) + audioData.len > MAX_QUEUE_SIZE THEN w0
    ELSE IF ~w0.headersExtracted
    THEN LET remainingData == AzRemainingData(w0, audioData)
             w1 == AzProcessChunk(w0, audioData)
         IN  IF w1.headersParsed
             THEN LET w2 == [w1 EXCEPT !.headersExtracted = TRUE]
                      w3 == IF remainingData # NoBlob /\ remainingData.len > 0
                            THEN [w2 EXCEPT !.audioQueue = Append(@, remainingData)]
                            ELSE w2
                  IN  AzTryPlayNextSegment(w3)
             ELSE w1
    ELSE AzTryPlayNextSegment([w0 EXCEPT !.audioQueue = Append(@, audioData)])

\* AudioPlayer.onSynthesisComplete
AzOnSynthesisComplete(w) ==
    AzTryPlayNextSegment([w EXCEPT !.isSynthesisComplete = TRUE])

\* AudioPlayer.resetAudioState
AzResetAudioState(w) ==
    [AzSegmenterReset(w) EXCEPT !.audioQueue = <<>>,
                                !.isPlaying = FALSE,
                                !.isSynthesisComplete = FALSE,
                                !.headersExtracted = FALSE,
                                !.src = NoBlob,
                                !.elPaused = TRUE,
                                !.ended = FALSE]

\* AudioPlayer.stop
AzPlayerStop(w) ==
    [AzResetAudioState(w) EXCEPT !.isPaused = FALSE, !.state = "idle"]

\* AudioPlayer.pause
AzPlayerPause(w) ==
    IF w.isInitialized /\ w.isPlaying
    THEN [w EXCEPT !.elPaused = TRUE, !.isPaused = TRUE, !.state = "paused"]
    ELSE w

\* AudioPlayer.resume
AzPlayerResume(w) ==
    IF w.isInitialized /\ w.isPaused
    THEN [w EXCEPT !.elPaused = (w.src = NoBlob), !.ended = FALSE,
                   !.isPaused = FALSE, !.state = "playing"]
    ELSE w

\* ws.send of the messages of the given paths for a turn, and what the
\* service puts on the socket when it receives them; a socket that is not
\* open takes and delivers nothing
AzSend(w, turn, paths, msgs) ==
    IF w.ws = "open"
    THEN [w EXCEPT !.wire = @ \o msgs,
                   !.outbox = @ \o [i \in 1..Len(paths) |->
                                       [path |-> paths[i], turn |-> turn]]]
    ELSE w

\* the messages with which the service answers the text of a section
AzAnswer(turn, stream) ==
    [i \in 1..Len(stream) |->
        [path |-> "audio", hdr |-> stream[i].hdr, len |-> stream[i].len,
         size |-> stream[i].size, turn |-> turn]]
      \o << [path |-> "turn.end", turn |-> turn] >>

\* exported speak: the catch of a rejected synth.speak(text)
AzSpeakCatch(w, error) ==
    LET errorKey == IF error \in {"config-incomplete", "auth-failed",
                                  "connection-failed"}
                    THEN error ELSE "other"
    IN  [w EXCEPT !.notifications = Append(@, [cause |-> errorKey, error |-> error]),
                  !.state = "idle"]

\* a speakSection call rejects with error: the catch of its caller runs
AzSpeakSectionFails(w, waiter, error) ==
    IF waiter.caller = "speak" THEN AzSpeakCatch(w, error)
    ELSE [AzSplitterReset(w) EXCEPT !.state = "idle"]

\* AzureStreamingSynthesizer.speakSection after its wait for turn.start
AzSpeakSectionSendText(w, waiter, stream) ==
    IF w.isStopped THEN w
    ELSE AzSend([w EXCEPT !.state = "playing"], waiter.turn,
                <<"text.piece", "text.end">>, AzAnswer(waiter.turn, stream))

\* AzureStreamingSynthesizer.speakSection from the return of connect() to the
\* wait for turn.start
AzSpeakSectionSendContext(w, waiter) ==
    IF w.isStopped THEN w
    ELSE AzSend([w EXCEPT !.isInitialized = TRUE,
                          !.turnStart = waiter.turn,
                          !.waiters = @ \cup {waiter}],
                waiter.turn, <<"speech.config", "synthesis.context">>,
                << [path |-> "turn.start", turn |-> waiter.turn] >>)

\* getAzureConfig: the preferences (no environment variable is set)
AzGetAzureConfig(w) ==
    LET prefKey == Trim(w.subscriptionKey)
        prefRegion == Trim(w.region)
    IN  [key |-> Trim(IF prefKey # "" THEN prefKey ELSE ""),
         region |-> Trim(IF prefRegion # "" THEN prefRegion ELSE "")]

\* AzureStreamingSynthesizer.speakSection up to its first await of the network
AzSpeakSection(w, section, caller) ==
    IF w.isStopped THEN w
    ELSE LET waiter == [turn |-> <<w.session, section.ord>>,
                        text |-> section.text, caller |-> caller]
             w1 == AzResetAudioState(w)
             languageId == Trim(w1.language)
             voiceName == Trim(w1.voice)
             config == AzGetAzureConfig(w1)
         IN  IF languageId = "" \/ voiceName = ""
             THEN AzSpeakSectionFails(w1, waiter, "config-incomplete")
             ELSE IF w1.isConnected /\ w1.ws = "open"
             THEN AzSpeakSectionSendContext(w1, waiter)
             ELSE IF config.key = "" \/ config.region = ""
             THEN AzSpeakSectionFails(w1, waiter, "auth-failed")
             ELSE [w1 EXCEPT !.ws = "connecting", !.connecting = waiter,
                             !.wire = <<>>]

\* AzureStreamingSynthesizer.speak up to its first await of the network
AzSpeak(w, text) ==
    LET w1 == [AzInitialize(AzPlayerStop(w), text) EXCEPT !.isStopped = FALSE]
    IN  AzSpeakSection(AzGetNextSection(w1), AzSection(w1), "speak")

\* AzureStreamingSynthesizer.stop, and the continuation of the speakSection
\* call whose wait for turn.start it rejects
AzStop(w) ==
    LET w1 == [w EXCEPT !.isStopped = TRUE]
        rejected == {x \in w1.waiters : x.turn = w1.turnStart}
        w2 == IF w1.turnStart # NoTurn
              THEN [w1 EXCEPT !.turnStart = NoTurn, !.waiters = @ \ rejected]
              ELSE w1
        w3 == [AzPlayerStop(AzSplitterReset(w2)) EXCEPT !.state = "idle"]
    IN  IF rejected = {} THEN w3
        ELSE AzSpeakSectionFails(w3, CHOOSE x \in rejected : TRUE,
                                 "Cancelled by user")

\* AzureStreamingSynthesizer.onAudioComplete up to its await of the network
AzOnAudioComplete(w) ==
    IF w.isStopped
    THEN [AzSplitterReset(w) EXCEPT !.state = "idle"]
    ELSE IF AzHasMore(w)
    THEN AzSpeakSection(AzGetNextSection(w), AzSection(w), "onAudioComplete")
    ELSE [AzSplitterReset(w) EXCEPT !.state = "idle"]

\* AudioPlayer.playSegment, the element's onended handler
AzOnEnded(w) ==
    LET w1 == [w EXCEPT !.isPlaying = FALSE, !.elPaused = TRUE, !.ended = TRUE]
    IN  IF Len(w1.audioQueue) > 0 \/ ~w1.isSynthesisComplete
        THEN AzTryPlayNextSegment(w1)
        ELSE AzOnAudioComplete(
                 [w1 EXCEPT !.completions = Append(@, w.src.head)])

\* handleMessage with a turn.start that continues the speakSection call even
\* when its wait has ended: the variant against which the text of a section
\* is shown not to be sent after the timeout
AzHandleMessageAnsweringLate(w, msg, stream) ==
    IF msg.path = "turn.start"
    THEN IF w.turnStart # NoTurn
         THEN LET resolved == {x \in w.waiters : x.turn = w.turnStart}
                  w1 == [w EXCEPT !.turnStart = NoTurn, !.waiters = @ \ resolved]
              IN  IF resolved = {}
                  THEN AzSpeakSectionSendText(
                           w1, [turn |-> w.turnStart, text |-> w.fullText,
                                caller |-> "speak"], stream)
                  ELSE AzSpeakSectionSendText(w1, CHOOSE x \in resolved : TRUE,
                                              stream)
         ELSE w
    ELSE IF msg.path = "turn.end"
    THEN AzOnSynthesisComplete(
             [w EXCEPT !.turnEnd = IF w.isStopped THEN @ ELSE msg.turn])
    ELSE IF msg.len > 0
    THEN AzQueueAudioChunk(w, [hdr |-> msg.hdr, len |-> msg.len,
                               size |-> msg.size, turn |-> msg.turn])
    ELSE w

\* AzureStreamingSynthesizer.handleMessage; stream is what the service will
\* answer if the message makes the synthesizer send the text of a section
AzHandleMessage(w, msg, stream) ==
    IF msg.path = "turn.start"
    THEN IF w.turnStart # NoTurn
         THEN LET resolved == {x \in w.waiters : x.turn = w.turnStart}
                  w1 == [w EXCEPT !.turnStart = NoTurn, !.waiters = @ \ resolved]
              IN  IF resolved = {} THEN w1
                  ELSE AzSpeakSectionSendText(w1, CHOOSE x \in resolved : TRUE,
                                              stream)
         ELSE w
    ELSE IF msg.path = "turn.end"
    THEN AzOnSynthesisComplete(
             [w EXCEPT !.turnEnd = IF w.isStopped THEN @ ELSE msg.turn])
    ELSE IF msg.len > 0
    THEN AzQueueAudioChunk(w, [hdr |-> msg.hdr, len |-> msg.len,
                               size |-> msg.size, turn |-> msg.turn])
    ELSE w

\* AzureStreamingSynthesizer.connect, the socket's onopen handler, and the
\* continuation of the speakSection call that awaited it
AzOnOpen(w) ==
    AzSpeakSectionSendContext(
        [w EXCEPT !.ws = "open", !.isConnected = TRUE, !.connecting = NoWaiter],
        w.connecting)

\* AzureStreamingSynthesizer.connect, the socket's onerror and onclose
\* handlers when the socket could not be opened
AzOnError(w) ==
    AzSpeakSectionFails(
        [w EXCEPT !.ws = "closed", !.isConnected = FALSE, !.connecting = NoWaiter],
        w.connecting, "connection-failed")

\* AzureStreamingSynthesizer.connect, the onclose handler of a socket: the
\* close event carries code
AzOnClose(w, code) ==
    LET wasConnected == w.isConnected
        w1 == [w EXCEPT !.isConnected = FALSE]
    IN  IF code # 1000 /\ ~w.isStopped /\ wasConnected
        THEN [w1 EXCEPT !.notifications =
                 Append(@, [cause |-> "connection-closed", error |-> "close"])]
        ELSE w1

\* AzureStreamingSynthesizer.disconnect: close(1000) on the socket, whose
\* close event arrives later if it was open; nothing more is received from it
AzDisconnect(w) ==
    IF w.ws = "null" THEN [w EXCEPT !.isConnected = FALSE]
    ELSE [w EXCEPT !.ws = "null", !.isConnected = FALSE, !.wire = <<>>,
                   !.closing = IF w.ws = "open" THEN @ + 1 ELSE @]

(***************************************************************************)
(* Actions of the Azure synthesizer.                                       *)
(***************************************************************************)
AzUserSpeak ==
    /\ az.ops < MaxOps
    /\ az.ws # "connecting"
    /\ \E text \in Texts :
         az' = Counted(AzSpeak([az EXCEPT !.synthesizer = TRUE,
                                            !.session = @ + 1,
                                            !.playLog = <<>>,
                                            !.completions = <<>>,
                                            !.outbox = <<>>,
                                            !.afterStop = FALSE],
                                 text))
    /\ UNCHANGED <<oai, loc, call>>

AzUserStop ==
    /\ az.ops < MaxOps
    /\ az.synthesizer
    /\ LET w == [AzStop(az) EXCEPT !.afterStop = TRUE]
       IN  w # az /\ az' = Counted(w)
    /\ UNCHANGED <<oai, loc, call>>

AzUserPause ==
    /\ az.synthesizer
    /\ AzPlayerPause(az) # az
    /\ az' = AzPlayerPause(az)
    /\ UNCHANGED <<oai, loc, call>>

AzUserResume ==
    /\ az.synthesizer
    /\ AzPlayerResume(az) # az
    /\ az' = AzPlayerResume(az)
    /\ UNCHANGED <<oai, loc, call>>

\* the socket being opened is open
AzSocketOpened ==
    /\ az.ws = "connecting"
    /\ az' = AzOnOpen(az)
    /\ UNCHANGED <<oai, loc, call>>

\* the socket being opened fails
AzSocketFailed ==
    /\ az.ws = "connecting"
    /\ az' = AzOnError(az)
    /\ UNCHANGED <<oai, loc, call>>

\* the codes of close events: normal closure, and the connection lost
CloseCodes == {1000, 1006}

\* the close event of a socket arrives: the open socket has been closed by the
\* other side or lost, or a socket that disconnect() closed has finished
\* closing, normally or because the connection was lost meanwhile
AzSocketClosed ==
    /\ \E code \in CloseCodes :
         \/ /\ az.ws = "open"
            /\ az' = AzOnClose([az EXCEPT !.ws = "closed", !.wire = <<>>], code)
         \/ /\ az.closing > 0
            /\ az' = AzOnClose([az EXCEPT !.closing = @ - 1], code)
    /\ UNCHANGED <<oai, loc, call>>

\* exported resetConnection; not given while a socket is being opened
AzUserDisconnect ==
    /\ az.synthesizer
    /\ az.ws # "connecting"
    /\ AzDisconnect(az) # az
    /\ az' = AzDisconnect(az)
    /\ UNCHANGED <<oai, loc, call>>

\* the next message of the service arrives; the service answers a text
\* with one of streams
AzMessageFrom(streams) ==
    /\ az.ws = "open"
    /\ az.wire # <<>>
    /\ \E stream \in streams :
         az' = AzHandleMessage([az EXCEPT !.wire = Tail(@)], Head(az.wire), stream)
    /\ UNCHANGED <<oai, loc, call>>

AzMessage == AzMessageFrom(AzStreams)

AzLiveMessage == AzMessageFrom(AzLiveStreams)

\* the timer of a wait for turn.start fires: the speakSection call rejects
AzTurnStartTimeout ==
    /\ \E waiter \in az.waiters :
         az' = AzSpeakSectionFails([az EXCEPT !.waiters = @ \ {waiter}], waiter,
                                   "Timeout waiting for turn.start")
    /\ UNCHANGED <<oai, loc, call>>

\* the audio element reaches the end of its source
AzPlaybackEnded ==
    /\ az.src # NoBlob
    /\ ~az.elPaused
    /\ ~az.ended
    /\ az' = AzOnEnded(az)
    /\ UNCHANGED <<oai, loc, call>>

AzNext ==
    \/ AzUserSpeak
    \/ AzUserStop
    \/ AzUserPause
    \/ AzUserResume
    \/ AzSocketOpened
    \/ AzSocketFailed
    \/ AzSocketClosed
    \/ AzMessage
    \/ AzTurnStartTimeout
    \/ AzPlaybackEnded

Init ==
    /\ oai = OaiInitWorld
    /\ loc = LocInitWorld
    /\ az = AzInitWorld
    /\ call = NoCall

SpecOpenAI == Init /\ [][OaiNext]_vars

SpecLocal == Init /\ [][LocNext]_vars

SpecAzure == Init /\ [][AzNext]_vars

\* the Azure synthesizer in one session that the user lets run: speak is
\* called once, the user may pause and resume but gives no other command, the
\* socket neither fails nor is closed, and the timer of a wait for turn.start
\* may fire before the service has answered
AzLiveNext ==
    \/ az.session = 0 /\ AzUserSpeak
    \/ AzUserPause
    \/ AzUserResume
    \/ AzSocketOpened
    \/ AzLiveMessage
    \/ AzTurnStartTimeout
    \/ AzPlaybackEnded

\* the socket being opened opens, a message waiting on the open socket is
\* delivered, the timer of a wait for turn.start that is still waiting fires,
\* and an audio element that is playing reaches the end of its source
SpecAzureLive ==
    /\ Init
    /\ [][AzLiveNext]_vars
    /\ WF_vars(AzSocketOpened)
    /\ WF_vars(AzLiveMessage)
    /\ WF_vars(AzTurnStartTimeout)
    /\ WF_vars(AzPlaybackEnded)

\* one session of one synthesizer: speak is called once, on one of the three
\* synthesizers, and the other two are never constructed; the commands that
\* follow are those of OaiNext and LocNext, and for Azure those of AzLiveNext
OneSessionNext ==
    \/ /\ loc = LocInitWorld
       /\ az = AzInitWorld
       /\ \/ oai.session = 0 /\ OaiUserSpeak
          \/ OaiUserStop
          \/ OaiUserPause
          \/ OaiUserResume
          \/ OaiUserSkipBackward
          \/ OaiUserReplaySection
          \/ OaiPlaybackEnded
          \/ OaiRequestDone
    \/ /\ oai = OaiInitWorld
       /\ az = AzInitWorld
       /\ \/ loc.session = 0 /\ LocUserSpeak
          \/ LocUserStop
          \/ LocUserPause
          \/ LocUserResume
          \/ LocUserSkipBackward
          \/ LocUserReplaySection
          \/ LocPlaybackEnded
          \/ LocRequestDone
    \/ /\ oai = OaiInitWorld
       /\ loc = LocInitWorld
       /\ AzLiveNext

SpecOneSession == Init /\ [][OneSessionNext]_vars

\* the connection of the Azure synthesizer: speak, stop and resetConnection,
\* the events of its sockets, the messages of the service and the timer of
\* the wait for turn.start
AzConnectionNext ==
    \/ AzUserSpeak
    \/ AzUserStop
    \/ AzUserDisconnect
    \/ AzSocketOpened
    \/ AzSocketFailed
    \/ AzSocketClosed
    \/ AzMessage
    \/ AzTurnStartTimeout

SpecAzureConnection == Init /\ [][AzConnectionNext]_vars

\* the OpenAI synthesizer left to run between the commands speak and stop:
\* every request is answered in the end, and an audio element that is playing
\* reaches the end of its source
OaiLiveNext ==
    \/ OaiUserSpeak
    \/ OaiUserStop
    \/ OaiPlaybackEnded
    \/ OaiRequestDone

SpecOpenAILive ==
    /\ Init
    /\ [][OaiLiveNext]_vars
    /\ WF_vars(OaiPlaybackEnded)
    /\ WF_vars(OaiRequestDone)

\* the OpenAI synthesizer under the events that start, end and feed its
\* prefetch: speak with texts of several lengths, stop, the end of playback
\* and the answers to its requests
OaiPrefetchNext ==
    \/ OaiUserSpeakAnyText
    \/ OaiUserStop
    \/ OaiPlaybackEnded
    \/ OaiRequestDone

SpecOpenAIPrefetch == Init /\ [][OaiPrefetchNext]_vars

\* the OpenAI synthesizer with an audio element that needs time to begin a
\* playback: the promise of play() is pending until the playback has begun
\* or a new source or load() has rejected it. The rejection is delivered when
\* the handler that caused it has run up to its first await, before any
\* other event.
InitSlowStart ==
    /\ oai = [OaiInitWorld EXCEPT !.slowStart = TRUE]
    /\ loc = LocInitWorld
    /\ az = AzInitWorld
    /\ call = NoCall

\* the element begins to play its source: the promise of play() resolves
OaiPlaybackStarted ==
    /\ oai.rejecting = NoUrl
    /\ oai.playPromise # NoUrl
    /\ oai' = [oai EXCEPT !.playPromise = NoUrl]
    /\ UNCHANGED <<loc, az, call>>

\* the catch callback of a rejected play() promise runs
OaiPlayRejected ==
    /\ oai.rejecting # NoUrl
    /\ oai' = [OaiPlayCatch(oai, oai.rejecting) EXCEPT !.rejecting = NoUrl]
    /\ UNCHANGED <<loc, az, call>>

\* an element that has begun to play reaches the end of its source
OaiStartedPlaybackEnded ==
    /\ oai.rejecting = NoUrl
    /\ oai.playPromise = NoUrl
    /\ OaiPlaybackEnded

\* exported stop(), not counted against the budget of commands
OaiUserStopUncounted ==
    /\ oai.rejecting = NoUrl
    /\ oai.synthesizer
    /\ LET w == [OaiStop(oai) EXCEPT !.afterStop = TRUE, !.replayFrom = -1]
       IN  w # oai /\ oai' = w
    /\ UNCHANGED <<loc, az, call>>

OaiSlowStartNext ==
    \/ OaiPlayRejected
    \/ OaiPlaybackStarted
    \/ OaiStartedPlaybackEnded
    \/ oai.rejecting = NoUrl /\ OaiUserSpeak
    \/ OaiUserStopUncounted
    \/ oai.rejecting = NoUrl /\ OaiUserSkipBackward
    \/ oai.rejecting = NoUrl /\ OaiUserReplaySection
    \/ oai.rejecting = NoUrl /\ OaiRequestDone

SpecOpenAISlowStart == InitSlowStart /\ [][OaiSlowStartNext]_vars

(***************************************************************************)
(* The AudioPlayer of the Azure synthesizer on its own: its methods are    *)
(* called with chunks of several sizes, in any order.                      *)
(***************************************************************************)
\* the calls of queueAudioChunk and prepareForNewSection in one behaviour
MaxCalls == 4

\* the chunks queueAudioChunk is called with: the header pages alone and with
\* audio behind them, audio of half, one and two minimum segments, and six
\* megabytes of audio
PlayerChunks ==
    { [hdr |-> TRUE, len |-> 256, size |-> 0],
      [hdr |-> TRUE, len |-> 4352, size |-> 4096],
      [hdr |-> FALSE, len |-> 4096, size |-> 4096],
      [hdr |-> FALSE, len |-> 8192, size |-> 8192],
      [hdr |-> FALSE, len |-> 16384, size |-> 16384],
      [hdr |-> FALSE, len |-> 6291456, size |-> 6291456] }

\* audioPlayer.queueAudioChunk(audioData); the chunk is the ops-th the player
\* is given
PlayerQueueAudioChunk ==
    /\ az.ops < MaxCalls
    /\ \E chunk \in PlayerChunks :
         az' = Counted(AzQueueAudioChunk(az,
                   [hdr |-> chunk.hdr, len |-> chunk.len, size |-> chunk.size,
                    turn |-> <<0, az.ops + 1>>]))
    /\ UNCHANGED <<oai, loc, call>>

\* audioPlayer.onSynthesisComplete()
PlayerSynthesisComplete ==
    /\ ~az.isSynthesisComplete
    /\ az' = AzOnSynthesisComplete(az)
    /\ UNCHANGED <<oai, loc, call>>

\* audioPlayer.prepareForNewSection()
PlayerPrepareForNewSection ==
    /\ az.ops < MaxCalls
    /\ az' = Counted(AzResetAudioState(az))
    /\ UNCHANGED <<oai, loc, call>>

\* audioPlayer.pause()
PlayerPause ==
    /\ AzPlayerPause(az) # az
    /\ az' = AzPlayerPause(az)
    /\ UNCHANGED <<oai, loc, call>>

\* audioPlayer.resume()
PlayerResume ==
    /\ AzPlayerResume(az) # az
    /\ az' = AzPlayerResume(az)
    /\ UNCHANGED <<oai, loc, call>>

PlayerNext ==
    \/ PlayerQueueAudioChunk
    \/ PlayerSynthesisComplete
    \/ PlayerPrepareForNewSection
    \/ PlayerPause
    \/ PlayerResume
    \/ AzPlaybackEnded

SpecAzurePlayer == Init /\ [][PlayerNext]_vars

(***************************************************************************)
(* The speak calls of the three synthesizers under every configuration:    *)
(* each preference is unset (the empty string), blank, or set.             *)
(***************************************************************************)
PrefValues(set) == {"", " ", set}

InitConfig ==
    /\ oai \in {[OaiInitWorld EXCEPT !.apiKey = k] : k \in PrefValues("sk")}
    /\ loc \in {[LocInitWorld EXCEPT !.apiUrl = u] :
                    u \in PrefValues("http://host:8880")}
    /\ az \in {[AzInitWorld EXCEPT !.subscriptionKey = k, !.region = r,
                                    !.language = l, !.voice = v] :
                   k \in PrefValues("key"), r \in {"", "westeurope"},
                   l \in {"", "en-US"}, v \in {"", "en-US-AvaNeural"}}
    /\ call = NoCall

ConfigNext == OaiUserSpeak \/ LocUserSpeak \/ AzUserSpeak

SpecConfig == InitConfig /\ [][ConfigNext]_vars

(***************************************************************************)
(* Functions of the source studied on their own: call holds the input of   *)
(* one application and the result once the function has been applied.      *)
(***************************************************************************)
\* the catch of synthesizeToBlob with every error passed on
\* as it came: the variant against which the closed set of outcomes is shown
\* to depend on the catch
SynthesizeToBlobCatchAll(error) == [kind |-> "throw", error |-> error]

\* synthesizeToBlob, the catch around fetch
SynthesizeToBlobCatch(error) ==
    IF error.name = "AbortError" THEN [kind |-> "throw", error |-> error]
    ELSE IF error.name = "Error" /\
            error.message \in {"auth-failed", "rate-limited", "api-error",
                               "config-incomplete"}
    THEN [kind |-> "throw", error |-> error]
    ELSE [kind |-> "throw",
          error |-> [name |-> "Error", message |-> "connection-failed"]]

\* what synthesizeToBlob (the same code in OpenAISynthesizer and
\* LocalSynthesizer) returns, and whether it has sent a
\* request, when its key or endpoint is apiUrl and the transport behaves as reply:
\* fetch gives a response with a status or throws, and reading the body of
\* the response succeeds or throws
SynthesizeToBlobResult(apiUrl, reply) ==
    IF apiUrl = ""
    THEN [kind |-> "throw", sent |-> FALSE,
          error |-> [name |-> "Error", message |-> "config-incomplete"]]
    ELSE LET thrown ==
               IF reply.fetch # "response"
               THEN [name |-> reply.fetch, message |-> "transport"]
               ELSE IF reply.body # "read"
               THEN [name |-> reply.body, message |-> "transport"]
               ELSE IF reply.status = 401
               THEN [name |-> "Error", message |-> "auth-failed"]
               ELSE IF reply.status = 429
               THEN [name |-> "Error", message |-> "rate-limited"]
               ELSE [name |-> "Error", message |-> "api-error"]
             ok == reply.status >= 200 /\ reply.status <= 299
             result ==
               IF reply.fetch = "response" /\ ok /\ reply.body = "read"
               THEN [kind |-> "blob"]
               ELSE SynthesizeToBlobCatch(thrown)
         IN  [name \in DOMAIN result \cup {"sent"} |->
                 IF name = "sent" THEN TRUE ELSE result[name]]

\* the replies of the transport to one request
HttpReplies ==
    [fetch : {"response"}, body : {"read", "TypeError", "AbortError"},
     status : {200, 201, 204, 299, 300, 400, 401, 403, 404, 429, 500, 503}]
    \cup [fetch : {"TypeError", "AbortError"}, body : {"read"}, status : {0}]

SynthesizeToBlobCalls ==
    [fn : {"synthesizeToBlob"}, engine : {"openai", "local"},
     pref : PrefValues("set"), reply : HttpReplies, done : {FALSE}]

(***************************************************************************)
(* TextSectionSplitter on texts of characters.  A text is its length and   *)
(* the marks in it: a mark is a short string of punctuation and white      *)
(* space at a position (counted from 0); every other character is a        *)
(* letter.  A section is the interval [from, to) of the text it is the     *)
(* substring of.  The class of local.ts is a copy of the class of          *)
(* openai.ts; FindSectionEnd is the model of both.                         *)
(***************************************************************************)
MAX_SECTION_SIZE == 4096
FIRST_SECTION_SIZE == 250
STANDARD_SECTION_SIZE == 1024
SENTENCE_ADJUSTMENT_LIMIT == 50
AZ_MAX_SECTION_SIZE == 6144  \* 6 * 1024

EmptyText == [len |-> 0, marks |-> {}]

\* the character classes of the regular expressions
Whitespace == {" ", "\n", "\t"}
SentenceEnd == {".", "!", "?"}
Closers == {"\"", "'", ")", "]"}

\* a regular expression: one or two character classes, with a starred class
\* between the two
Re(first, star, last) == [seq |-> <<first, last>>, star |-> star]
Re1(first) == [seq |-> <<first>>, star |-> {}]

\* findSectionEnd of openai.ts and local.ts: sentencePattern, breakPatterns
\* and the sentencePatterns of the forward search
SentencePattern == Re(SentenceEnd, Closers, Whitespace)
BreakPatterns ==
    << Re({"\n"}, {}, {"\n"}), Re({"\n"}, {}, {"\t"}), Re({"\n"}, {}, {" "}),
       Re(SentenceEnd, {}, Whitespace), Re({":"}, {}, Whitespace),
       Re({";"}, {}, Whitespace), Re({","}, {}, Whitespace),
       Re1({"\n"}), Re1(Whitespace) >>
ForwardPatterns ==
    << Re(SentenceEnd, {}, Whitespace), Re({":"}, {}, Whitespace),
       Re({";"}, {}, Whitespace) >>

\* findSectionEnd of tts.ftl: breakPatterns
AzBreakPatterns ==
    << Re({"\n"}, {}, {"\n"}), Re({"\n"}, {}, {"\t"}), Re({"\n"}, {}, {" "}),
       Re({":"}, {}, Whitespace), Re({";"}, {}, Whitespace),
       Re1({"\n"}), Re1({"\t"}) >>

\* the character of text t at position i
CharAt(t, i) ==
    IF \E m \in t.marks : i >= m.pos /\ i < m.pos + Len(m.tok)
    THEN LET m == CHOOSE m \in t.marks : i >= m.pos /\ i < m.pos + Len(m.tok)
         IN  m.tok[i - m.pos + 1]
    ELSE "a"

MarkPositions(t) ==
    UNION {m.pos .. (m.pos + Len(m.tok) - 1) : m \in t.marks}

SetMin(S) == CHOOSE x \in S : \A y \in S : x <= y
SetMax(S) == CHOOSE x \in S : \A y \in S : x >= y

RECURSIVE SkipStar(_, _, _, _)
SkipStar(t, star, j, limit) ==
    IF j < limit /\ CharAt(t, j) \in star THEN SkipStar(t, star, j + 1, limit)
    ELSE j

\* the end of the match of re that begins at position i of t.substring(.., limit),
\* or -1 when there is none
MatchEnd(t, re, i, limit) ==
    IF i >= limit \/ CharAt(t, i) \notin re.seq[1] THEN -1
    ELSE IF Len(re.seq) = 1 THEN i + 1
    ELSE LET j == SkipStar(t, re.star, i + 1, limit)
         IN  IF j < limit /\ CharAt(t, j) \in re.seq[2] THEN j + 1 ELSE -1

\* the matches that repeated re.exec finds in t.substring(from, limit), with
\* their positions in t
RECURSIVE Matches(_, _, _, _)
Matches(t, re, from, limit) ==
    LET starts == {i \in MarkPositions(t) :
                      i >= from /\ MatchEnd(t, re, i, limit) # -1}
    IN  IF starts = {} THEN {}
        ELSE LET i == SetMin(starts)
                 e == MatchEnd(t, re, i, limit)
             IN  {[index |-> i, end |-> e]} \cup Matches(t, re, e, limit)

\* the loop over breakPatterns: the end of the last match of the first
\* pattern that has a match beyond minSearchPos, or -1
RECURSIVE BreakSearch(_, _, _, _, _, _)
BreakSearch(t, patterns, k, startIndex, searchEnd, minSearchPos) ==
    IF k > Len(patterns) THEN -1
    ELSE LET found == {m \in Matches(t, patterns[k], startIndex, searchEnd) :
                          m.index - startIndex > minSearchPos}
         IN  IF found # {} THEN SetMax({m.end : m \in found})
             ELSE BreakSearch(t, patterns, k + 1, startIndex, searchEnd,
                              minSearchPos)

\* the loop of the forward search: the end of the first match of the first
\* pattern that matches, or -1
RECURSIVE ForwardSearch(_, _, _, _, _)
ForwardSearch(t, patterns, k, from, limit) ==
    IF k > Len(patterns) THEN -1
    ELSE LET found == Matches(t, patterns[k], from, limit)
         IN  IF found # {} THEN SetMin({m.end : m \in found})
             ELSE ForwardSearch(t, patterns, k + 1, from, limit)

\* TextSectionSplitter.findSectionEnd of openai.ts and local.ts
FindSectionEnd(s, startIndex) ==
    LET t == s.fullText
        remaining == t.len - startIndex
        targetSize == IF s.isFirstSection THEN FIRST_SECTION_SIZE
                      ELSE STANDARD_SECTION_SIZE
    IN
    IF remaining <= targetSize THEN t.len
    ELSE IF remaining <= targetSize + SENTENCE_ADJUSTMENT_LIMIT THEN t.len
    ELSE
      LET maxEnd == Min(t.len, startIndex + MAX_SECTION_SIZE)
          baseSearchEnd == Min(startIndex + targetSize, maxEnd)
          minSearchPos == targetSize \div 2
          sentenceSearchStart ==
              Max(startIndex, baseSearchEnd - SENTENCE_ADJUSTMENT_LIMIT)
          sentenceSearchEnd ==
              Min(maxEnd, baseSearchEnd + SENTENCE_ADJUSTMENT_LIMIT)
          ends == IF sentenceSearchEnd > sentenceSearchStart
                  THEN {m.end : m \in Matches(t, SentencePattern,
                                   sentenceSearchStart, sentenceSearchEnd)}
                  ELSE {}
          candidateAfter == {e \in ends : e > baseSearchEnd}
          candidateBefore == {e \in ends : e <= baseSearchEnd}
          sectionEnd == BreakSearch(t, BreakPatterns, 1, startIndex,
                                    baseSearchEnd, minSearchPos)
          forwardSearchEnd ==
              Min(baseSearchEnd + SENTENCE_ADJUSTMENT_LIMIT, maxEnd)
          forwardEnd == IF forwardSearchEnd > baseSearchEnd
                        THEN ForwardSearch(t, ForwardPatterns, 1,
                                           baseSearchEnd, forwardSearchEnd)
                        ELSE -1
      IN  IF candidateAfter # {} THEN SetMin(candidateAfter)
          ELSE IF candidateBefore # {} THEN SetMax(candidateBefore)
          ELSE IF sectionEnd # -1 THEN sectionEnd
          ELSE IF forwardEnd # -1 THEN forwardEnd
          ELSE baseSearchEnd

\* findSectionEnd of tts.ftl without its test of the remaining length: the
\* variant against which the limit of a section is shown to depend on it
AzFindSectionEndWhole(s, startIndex) == s.fullText.len

\* TextSectionSplitter.findSectionEnd of tts.ftl
AzFindSectionEnd(s, startIndex) ==
    LET t == s.fullText
        remaining == t.len - startIndex
    IN
    IF remaining <= AZ_MAX_SECTION_SIZE THEN t.len
    ELSE
      LET searchEnd == startIndex + AZ_MAX_SECTION_SIZE
          minSearchPos == AZ_MAX_SECTION_SIZE \div 2
          sectionEnd == BreakSearch(t, AzBreakPatterns, 1, startIndex,
                                    searchEnd, minSearchPos)
      IN  IF sectionEnd # -1 THEN sectionEnd ELSE searchEnd

\* TextSectionSplitter.hasMore
HasMore(s) == s.currentIndex < s.fullText.len

\* TextSectionSplitter.initialize
Initialize(s, text) ==
    [s EXCEPT !.fullText = text, !.currentIndex = 0, !.isFirstSection = TRUE]

\* getNextSection with the cursor set one character beyond the section: the
\* variant against which the sections are shown to be consecutive
GetNextSectionSkipping(s) ==
    IF ~HasMore(s)
    THEN [s EXCEPT !.out = Append(@, [from |-> s.currentIndex,
                                      to |-> s.currentIndex])]
    ELSE LET sectionEnd == IF s.engine = "azure"
                           THEN AzFindSectionEnd(s, s.currentIndex)
                           ELSE FindSectionEnd(s, s.currentIndex)
         IN  [s EXCEPT !.out = Append(@, [from |-> s.currentIndex,
                                          to |-> sectionEnd]),
                       !.currentIndex = sectionEnd + 1,
                       !.isFirstSection = FALSE]

\* TextSectionSplitter.getNextSection; the section it returns is appended to
\* out (fullText.substring(from, to))
GetNextSection(s) ==
    IF ~HasMore(s)
    THEN [s EXCEPT !.out = Append(@, [from |-> s.currentIndex,
                                      to |-> s.currentIndex])]
    ELSE LET sectionEnd == IF s.engine = "azure"
                           THEN AzFindSectionEnd(s, s.currentIndex)
                           ELSE FindSectionEnd(s, s.currentIndex)
         IN  [s EXCEPT !.out = Append(@, [from |-> s.currentIndex,
                                          to |-> Min(sectionEnd, s.fullText.len)]),
                       !.currentIndex = sectionEnd,
                       !.isFirstSection = FALSE]

\* the texts given to the splitters: a length, and up to k marks that
\* lie in the text and do not overlap
Marks(positions, tokens) == [pos : positions, tok : tokens]

RECURSIVE MarkSets(_, _)
MarkSets(marks, k) ==
    IF k = 0 THEN {{}}
    ELSE LET smaller == MarkSets(marks, k - 1)
         IN  smaller \cup
             {ms \cup {m} : ms \in {x \in smaller : Cardinality(x) = k - 1},
                            m \in marks}

TextsOf(lengths, marks, k) ==
    {t \in [len : lengths, marks : MarkSets(marks, k)] :
        /\ \A m \in t.marks : m.pos + Len(m.tok) <= t.len
        /\ \A m, n \in t.marks :
              m # n => (m.pos + Len(m.tok) <= n.pos \/ n.pos + Len(n.tok) <= m.pos)}

SplitterTexts(k) ==
    TextsOf({0, 250, 300, 301, 1400},
            Marks({125, 126, 199, 248, 249, 299, 763, 1273},
                  { <<".", " ">>, <<".", ")", " ">>, <<"\n", "\n">>,
                    <<"\n", "\t">>, <<":", " ">>, <<";", " ">>,
                    <<",", " ">>, <<" ">> }), k)

AzSplitterTexts(k) ==
    TextsOf({0, 6144, 6145, 12400},
            Marks({3072, 3073, 6142, 6143, 9300},
                  { <<".", " ">>, <<"\n", "\n">>, <<"\n", " ">>,
                    <<";", " ">>, <<"\t">> }), k)

\* a splitter as constructed, with the text it will be given
SplitterCalls(k) ==
    {[fn |-> "sections", engine |-> e, text |-> t, started |-> FALSE,
      fullText |-> EmptyText, currentIndex |-> 0, isFirstSection |-> TRUE,
      out |-> <<>>, exhausted |-> 0] :
        e \in {"openai"}, t \in SplitterTexts(k)}
    \cup
    {[fn |-> "sections", engine |-> "azure", text |-> t, started |-> FALSE,
      fullText |-> EmptyText, currentIndex |-> 0, isFirstSection |-> TRUE,
      out |-> <<>>, exhausted |-> 0] : t \in AzSplitterTexts(k)}

\* initialize(text) is called on the splitter held in call
CallInitialize ==
    /\ call.fn = "sections"
    /\ ~call.started
    /\ call' = [Initialize(call, call.text) EXCEPT !.started = TRUE]
    /\ UNCHANGED <<oai, loc, az>>

\* getNextSection() is called on the splitter held in call; when the text is
\* exhausted it is called once more
CallGetNextSection ==
    /\ call.fn = "sections"
    /\ call.started
    /\ call.exhausted < 1
    /\ call' = [GetNextSection(call) EXCEPT
                  !.exhausted = IF HasMore(call) THEN @ ELSE @ + 1]
    /\ UNCHANGED <<oai, loc, az>>

\* synthesizeToBlob is applied to the input held in call
CallSynthesizeToBlob ==
    /\ call.fn = "synthesizeToBlob"
    /\ ~call.done
    /\ LET config == IF call.engine = "openai"
                     THEN OaiGetOpenAIConfig([apiKey |-> call.pref])
                     ELSE LocGetLocalConfig([apiUrl |-> call.pref])
       IN  call' = [fn |-> call.fn, engine |-> call.engine, pref |-> call.pref,
                    reply |-> call.reply, done |-> TRUE, config |-> config,
                    result |-> SynthesizeToBlobResult(config, call.reply)]
    /\ UNCHANGED <<oai, loc, az>>

InitFunctions ==
    /\ oai = OaiInitWorld
    /\ loc = LocInitWorld
    /\ az = AzInitWorld
    /\ call \in SynthesizeToBlobCalls \cup SplitterCalls(MaxMarks)

FunctionsNext ==
    \/ CallSynthesizeToBlob
    \/ CallInitialize
    \/ CallGetNextSection

SpecFunctions == InitFunctions /\ [][FunctionsNext]_vars

(***************************************************************************)
(* OggSegmenter on bytes: src/addon/locale/en-US/tts.ftl                   *)
(*                                                                         *)
(* A Uint8Array is a sequence of numbers in 0..255; offsets count from 0   *)
(* as in the source.  null is a sequence that is no byte sequence.  A      *)
(* 32-bit or 64-bit unsigned number read from or written to a page is the  *)
(* sequence of its 16-bit words, low word first: the numbers of TLC end    *)
(* below 2^31.                                                             *)
(***************************************************************************)
MAX_PARSE_BUFFER_SIZE == 1048576  \* 1 * 1024 * 1024

\* the largest number of places at which a stream is cut into chunks
MaxCuts == 2

Null == <<-1>>

\* buffer.slice(from, to)
Slice(buffer, from, to) == SubSeq(buffer, from + 1, Min(to, Len(buffer)))

RECURSIVE Concat(_)
\* the arrays of a list one after the other
Concat(arrays) ==
    IF arrays = <<>> THEN <<>> ELSE Head(arrays) \o Concat(Tail(arrays))

RECURSIVE SumOf(_)
SumOf(numbers) ==
    IF numbers = <<>> THEN 0 ELSE Head(numbers) + SumOf(Tail(numbers))

RECURSIVE ToWords(_, _)
\* the number n as count 16-bit words
ToWords(n, count) ==
    IF count = 0 THEN <<>>
    ELSE <<n % 65536>> \o ToWords(n \div 65536, count - 1)

\* view.getUint32(at, true) and view.getBigUint64(at, true): the little-endian
\* number of 2 * count bytes at offset at
GetUint(buffer, at, count) ==
    [i \in 1..count |-> buffer[at + 2 * i - 1] + 256 * buffer[at + 2 * i]]

\* view.setUint32(at, value, true) and view.setBigUint64(at, value, true): the
\* bytes written
SetUint(words) ==
    Concat([i \in 1..Len(words) |-> <<words[i] % 256, words[i] \div 256>>])

RECURSIVE XorBits(_, _, _)
\* a ^ b on numbers of the given number of bits
XorBits(a, b, bits) ==
    IF bits = 0 THEN 0
    ELSE ((a + b) % 2) + 2 * XorBits(a \div 2, b \div 2, bits - 1)

XorTable == [a \in 0..255 |-> [b \in 0..255 |-> XorBits(a, b, 8)]]

\* a ^ b on 16-bit words
Xor16(a, b) ==
    256 * XorTable[a \div 256][b \div 256] + XorTable[a % 256][b % 256]

\* 0xEDB88320
CRC_POLYNOMIAL == <<33568, 60856>>

RECURSIVE CrcBits(_, _)
\* the inner loop of calculateCRC32: j more bits are shifted out
CrcBits(crc, j) ==
    IF j = 0 THEN crc
    ELSE LET shifted == <<(crc[1] \div 2) + 32768 * (crc[2] % 2), crc[2] \div 2>>
         IN  CrcBits(IF crc[1] % 2 = 1
                     THEN <<Xor16(shifted[1], CRC_POLYNOMIAL[1]),
                            Xor16(shifted[2], CRC_POLYNOMIAL[2])>>
                     ELSE shifted, j - 1)

\* the inner loop run on every value of the low byte of crc: the eight shifts
\* read those eight bits only, and shift the other bits down unchanged
CrcTable == [low \in 0..255 |-> CrcBits(<<low, 0>>, 8)]

\* one round of the outer loop of calculateCRC32: crc ^ byte, then the inner
\* loop
CrcByte(crc, byte) ==
    LET low == XorTable[crc[1] % 256][byte]
    IN  <<Xor16(CrcTable[low][1], (crc[1] \div 256) + 256 * (crc[2] % 256)),
          Xor16(CrcTable[low][2], crc[2] \div 256)>>

RECURSIVE CrcBytes(_, _, _, _)
\* the outer loop of calculateCRC32 over data[from..to], counted from 1: the
\* first half of the bytes, then the second half
CrcBytes(crc, data, from, to) ==
    IF from > to THEN crc
    ELSE IF from = to THEN CrcByte(crc, data[from])
    ELSE LET mid == (from + to) \div 2
             left == CrcBytes(crc, data, from, mid)
         IN  CASE Len(left) = 2 -> CrcBytes(left, data, mid + 1, to)

CalculateCRC32(data) == CrcBytes(<<0, 0>>, data, 1, Len(data))

OggS == <<79, 103, 103, 83>>
OpusHeadMagic == <<79, 112, 117, 115, 72, 101, 97, 100>>
OpusTagsMagic == <<79, 112, 117, 115, 84, 97, 103, 115>>

Incomplete == [complete |-> FALSE]

TryParsePageAt(buffer, offset) ==
    IF Len(buffer) - offset < 27 THEN Incomplete
    ELSE IF Slice(buffer, offset, offset + 4) # OggS THEN Incomplete
    ELSE
    LET segmentCount == buffer[offset + 26 + 1]
        segments == [i \in 1..segmentCount |-> buffer[offset + 27 + i]]
        payloadSize == SumOf(segments)
        headerAndTableSize == 27 + segmentCount
        totalSize == headerAndTableSize + payloadSize
    IN  IF Len(buffer) - offset < 27 + segmentCount THEN Incomplete
        ELSE IF Len(buffer) - offset < totalSize THEN Incomplete
        ELSE [complete |-> TRUE,
              page |-> [capturePattern |-> OggS,
                        version |-> buffer[offset + 4 + 1],
                        headerType |-> buffer[offset + 5 + 1],
                        granulePosition |-> GetUint(buffer, offset + 6, 4),
                        serialNumber |-> GetUint(buffer, offset + 14, 2),
                        sequenceNumber |-> GetUint(buffer, offset + 18, 2),
                        checksum |-> GetUint(buffer, offset + 22, 2),
                        segments |-> segments,
                        payload |-> Slice(buffer, offset + headerAndTableSize,
                                          offset + totalSize)],
              totalBytes |-> totalSize]

IsOpusHead(payload) ==
    IF Len(payload) < 8 THEN FALSE ELSE Slice(payload, 0, 8) = OpusHeadMagic

IsOpusTags(payload) ==
    IF Len(payload) < 8 THEN FALSE ELSE Slice(payload, 0, 8) = OpusTagsMagic

\* new OggSegmenter()
NewOggSegmenter ==
    [parseBuffer |-> <<>>, headersParsed |-> FALSE,
     opusHeadPage |-> Null, opusTagsPage |-> Null,
     serialNumber |-> ToWords(0, 2), currentGranulePosition |-> 0,
     nextPageSequence |-> 0]

\* an appendToBuffer that forgets the bytes kept from the chunks before
AppendToBufferForgetting(s, chunk) == [seg |-> s, buffer |-> chunk]

\* returns the buffer to parse and the segmenter, whose buffer it may reset
AppendToBuffer(s, chunk) ==
    IF Len(s.parseBuffer) = 0 THEN [seg |-> s, buffer |-> chunk]
    ELSE IF Len(s.parseBuffer) + Len(chunk) > MAX_PARSE_BUFFER_SIZE
    THEN [seg |-> [s EXCEPT !.parseBuffer = <<>>], buffer |-> chunk]
    ELSE [seg |-> s, buffer |-> s.parseBuffer \o chunk]

RECURSIVE ProcessChunkLoop(_, _, _)
\* the while loop of processChunk from offset on
ProcessChunkLoop(s, buffer, offset) ==
    IF ~(offset < Len(buffer))
    THEN [seg |-> [s EXCEPT !.parseBuffer = <<>>], ret |-> Null]
    ELSE
    LET result == TryParsePageAt(buffer, offset)
    IN  IF ~result.complete
        THEN [seg |-> [s EXCEPT !.parseBuffer =
                                    Slice(buffer, offset, Len(buffer))],
              ret |-> Null]
        ELSE IF IsOpusHead(result.page.payload)
        THEN ProcessChunkLoop(
                 [s EXCEPT !.opusHeadPage =
                               Slice(buffer, offset, offset + result.totalBytes),
                           !.serialNumber = result.page.serialNumber],
                 buffer, offset + result.totalBytes)
        ELSE IF IsOpusTags(result.page.payload)
        THEN [seg |-> [s EXCEPT !.opusTagsPage =
                                    Slice(buffer, offset,
                                          offset + result.totalBytes),
                                !.headersParsed = TRUE,
                                !.parseBuffer = <<>>],
              ret |-> IF offset + result.totalBytes < Len(buffer)
                      THEN Slice(buffer, offset + result.totalBytes,
                                 Len(buffer))
                      ELSE Null]
        ELSE ProcessChunkLoop(s, buffer, offset + result.totalBytes)

\* processChunk(chunk): the segmenter afterwards and the value returned
ProcessChunk(s, chunk) ==
    IF s.headersParsed THEN [seg |-> s, ret |-> chunk]
    ELSE LET appended == AppendToBuffer(s, chunk)
         IN  ProcessChunkLoop(appended.seg, appended.buffer, 0)

IsHeadersParsed(s) == s.headersParsed

\* the while loop of buildOggPage that fills segments: 255 as long as 255
\* bytes remain, then what remains if anything does
LacingValues(length) ==
    [i \in 1..(length \div 255) |-> 255]
        \o (IF length % 255 > 0 THEN <<length % 255>> ELSE <<>>)

\* page[26] = segmentCount stores the number in one byte
BuildOggPage(params) ==
    LET segments == LacingValues(Len(params.payload))
        segmentCount == Len(segments)
        page == OggS \o <<0, params.headerType % 256>>
                  \o SetUint(ToWords(params.granulePosition, 4))
                  \o SetUint(params.serialNumber)
                  \o SetUint(ToWords(params.sequenceNumber, 2))
                  \o SetUint(ToWords(0, 2))
                  \o <<segmentCount % 256>>
                  \o segments
                  \o params.payload
        crc == CalculateCRC32(page)
    IN  Slice(page, 0, 22) \o SetUint(crc) \o Slice(page, 26, Len(page))

\* createSegment(chunks): the segmenter afterwards and the segment returned
CreateSegment(s, chunks) ==
    IF s.opusHeadPage = Null \/ s.opusTagsPage = Null
    THEN [seg |-> s, ret |-> <<>>]
    ELSE
    LET audioData == Concat(chunks)
        estimatedFrames == Len(audioData) \div 100
        granule == s.currentGranulePosition + estimatedFrames * 960
        audioPage == BuildOggPage([headerType |-> 0,
                                   granulePosition |-> granule,
                                   serialNumber |-> s.serialNumber,
                                   sequenceNumber |-> s.nextPageSequence,
                                   payload |-> audioData])
    IN  [seg |-> [s EXCEPT !.currentGranulePosition = granule,
                           !.nextPageSequence = @ + 1],
         ret |-> s.opusHeadPage \o s.opusTagsPage \o audioPage]

(***************************************************************************)
(* The streams and chunks the segmenter is applied to.                     *)
(***************************************************************************)
\* an OpusHead page: beginning of stream, serial 0xC8345678, one lacing value
HeadPage ==
    OggS \o <<0, 2>> \o <<0, 0, 0, 0, 0, 0, 0, 0>> \o <<120, 86, 52, 200>>
         \o <<0, 0, 0, 0>> \o <<10, 20, 30, 40>> \o <<1>> \o <<10>>
         \o OpusHeadMagic \o <<1, 2>>

\* an OpusTags page with two lacing values
TagsPage ==
    OggS \o <<0, 0>> \o <<0, 0, 0, 0, 0, 0, 0, 0>> \o <<120, 86, 52, 200>>
         \o <<1, 0, 0, 0>> \o <<50, 60, 70, 80>> \o <<2>> \o <<8, 1>>
         \o OpusTagsMagic \o <<0>>

AudioBytes == <<79, 103, 7>>

Stream == HeadPage \o TagsPage \o AudioBytes

RECURSIVE CutSets(_, _)
\* the sets of at most count places of a stream of the given length
CutSets(length, count) ==
    IF count = 0 THEN {{}}
    ELSE LET fewer == CutSets(length, count - 1)
         IN  fewer \cup {cuts \cup {p} : cuts \in fewer, p \in 1..(length - 1)}

\* a chunk of audio of the given size
AudioChunk(size, k) == [i \in 1..size |-> (7 * i + k) % 256]

\* the sizes of the chunks of the lists given to successive createSegment
\* calls: 255 and 65025 bytes fill 1 and 255 lacing values exactly
ChunkLists ==
    { << <<>> >>, << <<1>> >>, << <<255>> >>, << <<256>> >>,
      << <<100, 200>>, <<510>> >>, << <<65025>> >>, << <<65026>> >> }

\* a segmenter as constructed: Stream will be given to it in chunks, cut at
\* at most maxCuts places cuts, and createSegment will be called with lists
SegmenterCalls(maxCuts) ==
    {[fn |-> "segmenter", cuts |-> cuts, lists |-> <<>>,
      fed |-> 0, seg |-> NewOggSegmenter, returns |-> <<>>, built |-> <<>>] :
        cuts \in CutSets(Len(Stream), maxCuts)}
    \cup
    {[fn |-> "segmenter", cuts |-> {}, lists |-> lists,
      fed |-> 0, seg |-> NewOggSegmenter, returns |-> <<>>, built |-> <<>>] :
        lists \in ChunkLists}

\* processChunk is called with the next chunk of the stream
CallProcessChunk ==
    /\ call.fn = "segmenter"
    /\ call.fed < Len(Stream)
    /\ LET to == SetMin({c \in call.cuts \cup {Len(Stream)} :
                             c > call.fed})
           r == ProcessChunk(call.seg, Slice(Stream, call.fed, to))
       IN  call' = [call EXCEPT !.fed = to, !.seg = r.seg,
                                !.returns = Append(@, r.ret)]
    /\ UNCHANGED <<oai, loc, az>>

\* createSegment is called with the next list of chunks
CallCreateSegment ==
    /\ call.fn = "segmenter"
    /\ call.lists # <<>>
    /\ LET sizes == Head(call.lists)
           chunks == [k \in 1..Len(sizes) |-> AudioChunk(sizes[k], k)]
           r == CreateSegment(call.seg, chunks)
       IN  call' = [call EXCEPT
                       !.lists = Tail(@), !.seg = r.seg,
                       !.built = Append(@, [chunks |-> sizes,
                                            before |-> call.seg,
                                            segment |-> r.ret])]
    /\ UNCHANGED <<oai, loc, az>>

InitOgg ==
    /\ oai = OaiInitWorld
    /\ loc = LocInitWorld
    /\ az = AzInitWorld
    /\ call \in SegmenterCalls(MaxCuts)

OggNext ==
    \/ CallProcessChunk
    \/ CallCreateSegment

SpecOgg == InitOgg /\ [][OggNext]_vars

(***************************************************************************)
(* The OggSegmenter given chunks that need not be the pieces of one        *)
(* well-formed stream: pages in any order, cut pages, and chunks about the *)
(* size of the parse buffer's maximum that hold no page.                   *)
(***************************************************************************)
MaxChunks == 2

ChunkKinds == {"head", "tags", "cut", "rest", "audio", "fill", "over", "big"}

\* the bytes of a chunk: a header page, the first 20 bytes of the OpusHead
\* page and the rest of it, audio bytes, or zero bytes (which begin no page)
\* that with the 20 bytes of a cut page reach MAX_PARSE_BUFFER_SIZE exactly,
\* exceed it by one, or exceed it on their own
ChunkOf(kind) ==
    CASE kind = "head" -> HeadPage
      [] kind = "tags" -> TagsPage
      [] kind = "cut" -> Slice(HeadPage, 0, 20)
      [] kind = "rest" -> Slice(HeadPage, 20, Len(HeadPage))
      [] kind = "audio" -> AudioBytes
      [] kind = "fill" -> [i \in 1..(MAX_PARSE_BUFFER_SIZE - 20) |-> 0]
      [] kind = "over" -> [i \in 1..(MAX_PARSE_BUFFER_SIZE - 19) |-> 0]
      [] kind = "big" -> [i \in 1..(MAX_PARSE_BUFFER_SIZE + 1) |-> 0]

\* the lists of at most count kinds of chunks
RECURSIVE KindLists(_)
KindLists(count) ==
    IF count = 0 THEN {<<>>}
    ELSE LET fewer == KindLists(count - 1)
         IN  fewer \cup {Append(list, kind) : list \in fewer, kind \in ChunkKinds}

\* a byte array as the state keeps it: its bytes up to the last that is not
\* zero, and the number of zero bytes that follow
PackBytes(buffer) ==
    LET last == SetMax({0} \cup {i \in 1..Len(buffer) : buffer[i] # 0})
    IN  [bytes |-> SubSeq(buffer, 1, last), zeros |-> Len(buffer) - last]

UnpackBytes(packed) == packed.bytes \o [i \in 1..packed.zeros |-> 0]

\* a segmenter as constructed or reset, and the chunks it will be given
ChunkCalls(maxChunks) ==
    {[fn |-> "chunks", chunks |-> chunks,
      seg |-> [NewOggSegmenter EXCEPT !.parseBuffer = PackBytes(@)],
      given |-> "none", returned |-> -1] :
        chunks \in KindLists(maxChunks) \ {<<>>}}

\* the segmenter of the state
ChunkSegmenter == [call.seg EXCEPT !.parseBuffer = UnpackBytes(@)]

\* processChunk is called with the next chunk; the length of what it returns
\* is kept (-1 for null)
CallProcessNextChunk ==
    /\ call.fn = "chunks"
    /\ call.chunks # <<>>
    /\ LET r == ProcessChunk(ChunkSegmenter, ChunkOf(Head(call.chunks)))
       IN  call' = [call EXCEPT !.chunks = Tail(@),
                                !.seg = [r.seg EXCEPT
                                            !.parseBuffer = PackBytes(@)],
                                !.given = Head(call.chunks),
                                !.returned = IF r.ret = Null THEN -1
                                             ELSE Len(r.ret)]
    /\ UNCHANGED <<oai, loc, az>>

InitChunks ==
    /\ oai = OaiInitWorld
    /\ loc = LocInitWorld
    /\ az = AzInitWorld
    /\ call \in ChunkCalls(MaxChunks)

SpecOggChunks == InitChunks /\ [][CallProcessNextChunk]_vars

(***************************************************************************)
(* Properties of the OpenAI synthesizer.                                   *)
(***************************************************************************)
\* the ordinals of the sections handed to the player in this session
OaiPlayedOrdinals == [i \in 1..Len(oai.playLog) |-> oai.playLog[i].blob.ord]

\* the blobs held by the session cache, the prefetch queue and the play log
OaiHeldBlobs ==
    {oai.sessionCache.sections[i] : i \in 1..Len(oai.sessionCache.sections)}
      \cup {oai.audioQueue[i].blob : i \in 1..Len(oai.audioQueue)}
      \cup {oai.playLog[i].blob : i \in 1..Len(oai.playLog)}

\* C1: while the first speak() is the only command given (live streaming, no
\* skipBackward, no replaySection), the ordinals of the sections handed to the
\* player are strictly increasing.
C1_LiveOrdinalsIncrease ==
    (oai.session = 1 /\ oai.ops = 1) =>
        \A i, j \in 1..Len(oai.playLog) :
            i < j => OaiPlayedOrdinals[i] < OaiPlayedOrdinals[j]

\* C2: in a session of one speak() with no other command and no backend
\* failure, the tts state is idle again only when every section of the text
\* has been handed to the player.
C2_IdleOnlyAfterLastSection ==
    (/\ oai.session = 1 /\ oai.ops = 1 /\ ~oai.failed
     /\ oai.playLog # <<>> /\ oai.state = "idle") =>
        \A n \in 0..(NumSections(oai.sessionCache.text) - 1) :
            \E i \in 1..Len(oai.playLog) : OaiPlayedOrdinals[i] = n

\* C3: every blob played, queued or cached in the session of the latest
\* speak() was synthesized for the text of that speak().
C3_NoBlobOfEarlierText ==
    oai.sessionCache # NoCache =>
        \A b \in OaiHeldBlobs : b # NoBlob => b.text = oai.sessionCache.text

\* C4: after stop(), until the next speak, replaySection or skipBackward, the
\* prefetch queue is empty, no prefetch is tracked, the sectioner is exhausted,
\* the tts state is idle and nothing is playing, also when requests issued
\* before the stop are answered.
C4_StopLeavesIdle ==
    oai.afterStop =>
        /\ oai.audioQueue = <<>>
        /\ oai.prefetchInProgress = {}
        /\ ~OaiHasMore(oai)
        /\ oai.state = "idle"
        /\ ~oai.isPlaying
        /\ oai.src = NoBlob
        /\ oai.elPaused

\* a request issued before stop() was answered with audio after it
C4_Witness ==
    /\ oai.afterStop
    /\ ~oai.failed
    /\ oai.inflight = {}
    /\ oai.playLog = <<>>
    /\ oai.sessionCache # NoCache
    /\ ArrayGet(oai.sessionCache.sections, 0) # NoBlob

\* C8: after stop() every request that is still in flight has been aborted.
C8_StopAbortsRequests ==
    oai.afterStop => \A r \in oai.inflight : r.aborted

\* C10: a speak() whose text, voice and model equal the tuple of the session
\* cache starts playback with the cached blob at index 0 and issues no request
\* of its own.
C10_CacheHitPlaysFromCache ==
    (oai.cacheHit /\ ~oai.afterStop) =>
        /\ oai.playLog # <<>>
        /\ oai.playLog[1].index = 0
        /\ oai.playLog[1].blob.ord = 0
        /\ \A r \in oai.inflight : r.sess # oai.session

(***************************************************************************)
(* Properties of the Local synthesizer.                                    *)
(***************************************************************************)
\* C6: after stop(), until the next speak, replaySection or skipBackward,
\* nothing is played and the tts state is idle, also when the request that was
\* in flight at the stop is answered.
C6_LocalStopStaysIdle ==
    loc.afterStop => (loc.state = "idle" /\ ~loc.isPlaying /\ loc.elPaused)

\* C7: once speak(B) has begun, every blob handed to the player was
\* synthesized for B, and every section requested by the prefetch chain of a
\* speak() is a section of that speak()'s text.
C7_LocalSpeakTearsDown ==
    /\ \A i \in 1..Len(loc.playLog) : loc.playLog[i].blob.text = loc.spoken
    /\ \A r \in loc.inflight : r.text = r.chain

(***************************************************************************)
(* Properties of the Azure synthesizer.                                    *)
(***************************************************************************)
\* C5: after stop(), until the next speak(), no audio is buffered for
\* playback and no segment is playing, also when audio frames and the
\* turn.end of the turn that was in progress arrive.
C5_AzureStopDropsLateAudio ==
    az.afterStop =>
        /\ az.audioQueue = <<>>
        /\ ~az.isPlaying
        /\ az.src = NoBlob

\* C9: no error notification is caused by stop(): the error with which
\* stop() rejects a wait for turn.start never reaches notifyGeneric.
C9_StopNeverNotifies ==
    \A i \in 1..Len(az.notifications) :
        az.notifications[i].error # "Cancelled by user"


(***************************************************************************)
(* Error handling of the synthesizers.                                     *)
(***************************************************************************)
\* C11: in the OpenAI synthesizer with its key configured a step pushes a notification exactly when it
\* answers the request for a first section with a taxonomy error; that step
\* pushes one notification, carrying the error, and leaves the tts state idle;
\* failed prefetch requests push nothing.
C11_FirstFailureNotifiesOnce ==
    [][IF oai'.firstErrors # oai.firstErrors
       THEN /\ oai'.notifications =
                 Append(oai.notifications,
                        oai'.firstErrors[Len(oai'.firstErrors)])
            /\ oai'.state = "idle"
       ELSE oai'.notifications = oai.notifications]_vars

\* the first section of a three-section text and both prefetched sections
\* have failed: one notification, nothing queued, nothing played
C11_Witness ==
    /\ oai.ops = 1
    /\ oai.sessionCache # NoCache
    /\ oai.sessionCache.text = "A"
    /\ oai.sessionCache.sections = <<>>
    /\ oai.inflight = {}
    /\ oai.audioQueue = <<>>
    /\ Len(oai.firstErrors) = 1
    /\ oai.notifications = oai.firstErrors
    /\ oai.state = "idle"

\* C12: the first request the backend fails with a taxonomy error, whichever
\* section it is for (the first, one fetched on playback completion, or a
\* prefetched one), pushes a notification and leaves the tts state idle.
C12_AnyFailureNotifies ==
    [][(~oai.failed /\ oai'.failed) =>
          /\ Len(oai'.notifications) = Len(oai.notifications) + 1
          /\ oai'.state = "idle"]_vars

\* C13: in every backend each speak call made while a required configuration
\* key is absent (OpenAI: the key; Local: the endpoint; Azure: the key, the
\* region, the language or the voice) has failed with config-incomplete.
C13_AbsentKeyIsConfigIncomplete ==
    /\ OaiGetOpenAIConfig(oai) = "" =>
          /\ Len(oai.notifications) = oai.session
          /\ \A i \in 1..Len(oai.notifications) :
                oai.notifications[i] = "config-incomplete"
    /\ LocGetLocalConfig(loc) = "" =>
          /\ Len(loc.notifications) = loc.session
          /\ \A i \in 1..Len(loc.notifications) :
                loc.notifications[i] = "config-incomplete"
    /\ (\/ AzGetAzureConfig(az).key = ""
        \/ AzGetAzureConfig(az).region = ""
        \/ Trim(az.language) = ""
        \/ Trim(az.voice) = "") =>
          /\ Len(az.notifications) = az.session
          /\ \A i \in 1..Len(az.notifications) :
                az.notifications[i].cause = "config-incomplete"

\* C14: the outcomes of synthesizeToBlob of the REST backends form a closed
\* set: without a key or endpoint it throws config-incomplete and sends
\* nothing; an AbortError of the transport passes unchanged; any other
\* exception of the transport becomes connection-failed; otherwise a 2xx
\* status gives the blob, 401 auth-failed, 429 rate-limited and every other
\* status api-error.
C14_ClosedSetOfOutcomes ==
    (call.fn = "synthesizeToBlob" /\ call.done) =>
      LET reply == call.reply
          out == call.result
          Throws(message) ==
              /\ out.kind = "throw"
              /\ out.error = [name |-> "Error", message |-> message]
          transport == IF reply.fetch # "response" THEN reply.fetch
                       ELSE reply.body
      IN  IF call.config = ""
          THEN Throws("config-incomplete") /\ ~out.sent
          ELSE /\ out.sent
               /\ CASE transport = "AbortError" ->
                          /\ out.kind = "throw"
                          /\ out.error.name = "AbortError"
                     [] transport = "TypeError" -> Throws("connection-failed")
                     [] reply.status \in 200..299 -> out.kind = "blob"
                     [] reply.status = 401 -> Throws("auth-failed")
                     [] reply.status = 429 -> Throws("rate-limited")
                     [] OTHER -> Throws("api-error")

\* a request answered with status 401 has been rejected with auth-failed
C14_Witness ==
    /\ call.fn = "synthesizeToBlob"
    /\ call.done
    /\ call.config # ""
    /\ call.reply.fetch = "response"
    /\ call.reply.status = 401
    /\ call.reply.body = "read"
    /\ call.result.kind = "throw"
    /\ call.result.error.message = "auth-failed"

(***************************************************************************)
(* Properties of the text splitters.                                       *)
(***************************************************************************)
\* the sections returned so far are consecutive substrings of the text from
\* its beginning up to the cursor, so that their concatenation is the text
\* up to the cursor
SectionsConsecutive(c) ==
    /\ \A i \in 1..Len(c.out) :
          /\ c.out[i].from = (IF i = 1 THEN 0 ELSE c.out[i - 1].to)
          /\ c.out[i].from <= c.out[i].to
          /\ c.out[i].to <= c.text.len
    /\ c.currentIndex = (IF c.out = <<>> THEN 0 ELSE c.out[Len(c.out)].to)
    /\ (c.started /\ ~HasMore(c)) => c.currentIndex = c.text.len

\* C15: for each splitter and every text, the sections returned by
\* getNextSection() after initialize(text) are consecutive substrings that
\* cover the text exactly once hasMore() is false; a call made while
\* hasMore() is true returns a non-empty section and moves the cursor
\* forward; a call made when the text is exhausted returns the empty string
\* and changes nothing.
C15_SectionsConcatenateToText ==
    [][(call.fn = "sections" /\ call.started /\ call' # call) =>
          /\ SectionsConsecutive(call')
          /\ Len(call'.out) = Len(call.out) + 1
          /\ LET section == call'.out[Len(call'.out)]
             IN  IF HasMore(call)
                 THEN /\ section.to > section.from
                      /\ call'.currentIndex > call.currentIndex
                 ELSE /\ section.to = section.from
                      /\ call'.fullText = call.fullText
                      /\ call'.currentIndex = call.currentIndex
                      /\ call'.isFirstSection = call.isFirstSection]_vars

\* a text of 1400 characters has been returned in three sections, the first
\* of them ended at a mark and not at the target size, and the call after
\* the last has returned the empty string
C15_Witness ==
    /\ call.fn = "sections"
    /\ call.engine = "openai"
    /\ call.text.len = 1400
    /\ Len(call.out) = 4
    /\ call.out[1].to # FIRST_SECTION_SIZE
    /\ call.out[3].to = 1400
    /\ call.exhausted = 1

\* C16: no section returned by a splitter is longer than the maximum
\* section size of its backend: 6144 characters for Azure, 4096 for OpenAI
\* and Local.
C16_SectionWithinMaximum ==
    call.fn = "sections" =>
        \A i \in 1..Len(call.out) :
            call.out[i].to - call.out[i].from <=
                (IF call.engine = "azure" THEN AZ_MAX_SECTION_SIZE
                 ELSE MAX_SECTION_SIZE)

\* the Azure splitter has cut a section of exactly the maximum size out of a
\* longer text
C16_Witness ==
    /\ call.fn = "sections"
    /\ call.engine = "azure"
    /\ Len(call.out) >= 1
    /\ call.out[1].to - call.out[1].from = AZ_MAX_SECTION_SIZE
    /\ call.text.len > AZ_MAX_SECTION_SIZE

(***************************************************************************)
(* Properties of the Azure player.                                         *)
(***************************************************************************)
\* the turns of the sections of the sessions
AzTurns == {<<session, ord>> : session \in 1..MaxOps, ord \in 0..(MaxSections - 1)}

\* how often onAllSegmentsComplete was called at the end of a segment of the
\* turn
AzCompletions(w, turn) ==
    Cardinality({i \in 1..Len(w.completions) : w.completions[i] = turn})

\* C19: in a session that is not stopped, when the turn.end of a section is
\* handled, onAllSegmentsComplete is eventually called for the section unless
\* the user pauses, whether the segments end before or after the turn.end
\* and whether or not audio is queued when it arrives; it is never called
\* twice for a section
C19_TurnEndLeadsToCompletion ==
    /\ [](\A turn \in AzTurns : AzCompletions(az, turn) <= 1)
    /\ \A turn \in AzTurns :
           (az.turnEnd = turn)
               ~> (AzCompletions(az, turn) = 1 \/ az.isPaused)

\* the audio of a segment handed to the audio element
AzSegmentAudio(segment) ==
    IF segment = [empty |-> TRUE] THEN <<>> ELSE segment.audio

C20_WitnessTwoChunks ==
    /\ az.isSynthesisComplete
    /\ az.isPlaying
    /\ az.audioQueue = <<>>
    /\ Len(az.playLog) = 1
    /\ Len(az.playLog[1].audio) = 2
    /\ AzQueuedSize(az.playLog[1].audio) < 2 * MIN_SEGMENT_SIZE

(***************************************************************************)
(* Properties of the Ogg segmenter.                                        *)
(***************************************************************************)
\* the stream given to a new segmenter as one chunk
WholeStream == ProcessChunk(NewOggSegmenter, Stream)

\* the arrays processChunk has returned, one after the other
ReturnedAudio(returns) ==
    Concat(SelectSeq(returns, LAMBDA ret : ret # Null))

C18_BuiltPageParsesBack ==
    call.fn = "segmenter" =>
        \A n \in 1..Len(call.built) :
            LET b == call.built[n]
                headers == Len(b.before.opusHeadPage) + Len(b.before.opusTagsPage)
                audioPage == Slice(b.segment, headers, Len(b.segment))
                result == TryParsePageAt(audioPage, 0)
                zeroed == Slice(audioPage, 0, 22) \o <<0, 0, 0, 0>>
                              \o Slice(audioPage, 26, Len(audioPage))
            IN  IsHeadersParsed(b.before) =>
                    /\ result.complete
                    /\ result.totalBytes = Len(audioPage)
                    /\ result.page.payload =
                           Concat([k \in 1..Len(b.chunks) |->
                                       AudioChunk(b.chunks[k], k)])
                    /\ result.page.checksum = CalculateCRC32(zeroed)

(***************************************************************************)
(* Properties of the playback commands of the REST synthesizers.           *)
(***************************************************************************)
\* what skipBackward is to do in world w at position t, given the world after
\* it: seek back 10 s and nothing else; or stop the playback and play the
\* blob cached at the previous index as cache replay; or rewind and nothing
\* else (Oai and Loc worlds take the operators of their own players, and the
\* stopped world of the OpenAI player has the URL of the replayed blob made)
SkipBackwardAsDescribed(w, t, after, stopped) ==
    LET index == w.currentSectionIndex
        previous == IF w.sessionCache # NoCache /\ index > 0
                    THEN ArrayGet(w.sessionCache.sections, index - 1)
                    ELSE NoBlob
    IN
    IF t >= 10 THEN after = [w EXCEPT !.currentTime = t - 10]
    ELSE IF previous # NoBlob
    THEN after = [stopped EXCEPT
                    !.isStopped = FALSE,
                    !.cachePlaybackActive = TRUE,
                    !.currentSectionIndex = index - 1,
                    !.nextCachedPlaybackIndex = index,
                    !.isInitialized = TRUE,
                    !.isPlaying = TRUE,
                    !.state = "playing",
                    !.currentBlobUrl = previous,
                    !.src = previous,
                    !.elPaused = FALSE,
                    !.ended = FALSE,
                    !.currentTime = 0,
                    !.playLog = Append(@, [blob |-> previous,
                                           index |-> index - 1])]
    ELSE after = [w EXCEPT !.currentTime = 0]

\* C21: in every reachable state of the OpenAI and of the local synthesizer
\* and at every position the element can have reached, skipBackward seeks
\* back 10 s and changes nothing else if the position is at least 10 s;
\* otherwise, if the section index is above 0 and the cache holds a blob at
\* the previous index, it stops the playback and replays the cache from that
\* index; otherwise it only puts the position to 0
C21_SkipBackwardBranches ==
    /\ \A t \in ElementPositions(oai) :
          SkipBackwardAsDescribed(
              oai, t, OaiSkipBackward(oai, t),
              LET url == <<oai.session, Len(oai.playLog) + 1>>
              IN  [OaiPlayerStop(oai) EXCEPT !.liveUrls = @ \cup {url},
                                             !.currentUrl = url,
                                             !.srcUrl = url])
    /\ \A t \in ElementPositions(loc) :
          SkipBackwardAsDescribed(loc, t, LocSkipBackward(loc, t),
                                  LocPlayerStop(loc))

\* skipBackward has replayed section 0 from the cache while section 1 of a
\* live session was playing
C21_Witness ==
    /\ oai.session = 1
    /\ ~oai.cacheHit
    /\ oai.cachePlaybackActive
    /\ Len(oai.playLog) = 3
    /\ oai.playLog[2].index = 1
    /\ oai.playLog[3].index = 0
    /\ oai.currentSectionIndex = 0

\* skipBackward has moved the position of a playing section back by 10 s
C21_WitnessSeek ==
    /\ oai.isPlaying
    /\ oai.currentTime = 3
    /\ oai.currentSectionIndex = 1

\* C22: in every reachable state in which the session cache holds at least
\* one section, replaySection starts playing the cached section of index 0 (the
\* first of the sections to be played in increasing order); in every other
\* state it changes nothing
C22_ReplayStartsAtIndexZero ==
    LET w == OaiReplaySection(oai)
    IN  IF oai.sessionCache # NoCache /\ Len(oai.sessionCache.sections) > 0
        THEN /\ w.state = "playing"
             /\ w.currentSectionIndex = 0
             /\ w.src # NoBlob
             /\ w.src = ArrayGet(oai.sessionCache.sections, 0)
        ELSE w = oai

\* the audio element of world w is playing audio that the player has started
\* and that has not ended
AudioPlaying(w) == w.isPlaying /\ w.src # NoBlob /\ ~w.elPaused /\ ~w.ended

\* the audio element of world w holds audio that has not ended: playing or
\* paused
AudioLoaded(w) == w.src # NoBlob /\ ~w.ended

\* what pause() and resume() are to do in world w, given the worlds after
\* pause(), after resume() and after pause() then resume(): they change at most
\* the element's paused and ended flags, the player's isPaused and the tts
\* state; pause() changes nothing while the element holds no audio or its
\* audio has ended; resume() changes nothing while the player is not paused;
\* and while audio that the player has started is playing, pause() makes the
\* state paused and the resume() after it makes it playing again
PauseResumeAsDescribed(w, paused, resumed, both) ==
    /\ paused = [w EXCEPT !.elPaused = paused.elPaused,
                          !.isPaused = paused.isPaused,
                          !.state = paused.state]
    /\ resumed = [w EXCEPT !.elPaused = resumed.elPaused,
                           !.ended = resumed.ended,
                           !.isPaused = resumed.isPaused,
                           !.state = resumed.state]
    /\ ~AudioLoaded(w) => paused = w
    /\ ~w.isPaused => resumed = w
    /\ AudioPlaying(w) =>
          /\ paused.state = "paused"
          /\ paused.elPaused
          /\ both.state = "playing"
          /\ ~both.elPaused

\* C23: in every reachable state of each synthesizer pause() and resume()
\* affect only the player (they leave the prefetch queue, the requests in
\* flight, the session cache, the section cursors and the stopped flag
\* unchanged), pause() without audio and resume() without a pause change
\* nothing, and pause() then resume() during playback give the state playing
C23_PauseResumeOnlyThePlayer ==
    /\ PauseResumeAsDescribed(oai, OaiPlayerPause(oai), OaiPlayerResume(oai),
                              OaiPlayerResume(OaiPlayerPause(oai)))
    /\ PauseResumeAsDescribed(loc, LocPlayerPause(loc), LocPlayerResume(loc),
                              LocPlayerResume(LocPlayerPause(loc)))
    /\ PauseResumeAsDescribed(az, AzPlayerPause(az), AzPlayerResume(az),
                              AzPlayerResume(AzPlayerPause(az)))

\* pause() was given during playback while a prefetched blob waits in the
\* queue and a request is in flight
C23_Witness ==
    /\ oai.state = "paused"
    /\ oai.isPaused
    /\ oai.elPaused
    /\ Len(oai.audioQueue) > 0
    /\ oai.inflight # {}

\* pause() was given while the Azure player played a segment with more audio
\* waiting in its queue
C23_WitnessAzure ==
    /\ az.state = "paused"
    /\ az.isPaused
    /\ az.elPaused
    /\ Len(az.audioQueue) > 0

(***************************************************************************)
(* Properties of the Azure connection.                                     *)
(***************************************************************************)
\* text.piece has been sent for the turn
AzTextSent(w, turn) ==
    \E i \in 1..Len(w.outbox) :
        w.outbox[i] = [path |-> "text.piece", turn |-> turn]

\* C24: in a session without stop(), a speakSection call that waits for
\* turn.start does not wait forever; a step that ends its wait either handles
\* the turn.start of its turn and sends the text, or sends nothing and fails
\* the section (state idle, and for the first section the notification of
\* "Timeout waiting for turn.start"); and the text of a turn is sent only by
\* the step that handles its turn.start while the call is still waiting
C24_TurnStartTimeoutFailsTheSection ==
    /\ \A turn \in AzTurns :
           (\E waiter \in az.waiters : waiter.turn = turn)
               ~> ~(\E waiter \in az.waiters : waiter.turn = turn)
    /\ [][\A waiter \in az.waiters :
             waiter \notin az'.waiters =>
                 IF /\ az.wire # <<>>
                    /\ Head(az.wire) = [path |-> "turn.start", turn |-> waiter.turn]
                    /\ az'.wire # az.wire
                 THEN AzTextSent(az', waiter.turn)
                 ELSE /\ az'.outbox = az.outbox
                      /\ az'.wire = az.wire
                      /\ az'.state = "idle"
                      /\ waiter.caller = "speak" =>
                            az'.notifications =
                                Append(az.notifications,
                                       [cause |-> "other",
                                        error |-> "Timeout waiting for turn.start"])
         ]_vars
    /\ [][\A turn \in AzTurns :
             (AzTextSent(az', turn) /\ ~AzTextSent(az, turn)) =>
                 /\ \E waiter \in az.waiters : waiter.turn = turn
                 /\ az.wire # <<>>
                 /\ Head(az.wire) = [path |-> "turn.start", turn |-> turn]
         ]_vars

\* the timer of the wait for the first section has fired, the turn.start that
\* came late has been handled, and no text has been sent
C24_Witness ==
    /\ az.session = 1
    /\ az.waiters = {}
    /\ az.wire = <<>>
    /\ az.ws = "open"
    /\ Len(az.notifications) = 1
    /\ az.notifications[1].error = "Timeout waiting for turn.start"
    /\ Len(az.outbox) = 2
    /\ ~AzTextSent(az, <<1, 0>>)

\* C25: in every reachable state and for every close code, the close event of
\* the open socket produces the connection-closed notification exactly if
\* the code is not 1000 and the session is not stopped, and the close event
\* of a socket that is still being opened or that disconnect() closed
\* produces none
C25_CloseNotifiesIffDropped ==
    \A code \in CloseCodes :
        LET after == AzOnClose(az, code)
            notified == [cause |-> "connection-closed", error |-> "close"]
        IN  /\ az.ws = "open" =>
                  after.notifications =
                      IF code # 1000 /\ ~az.isStopped
                      THEN Append(az.notifications, notified)
                      ELSE az.notifications
            /\ (az.ws = "connecting" \/ az.closing > 0) =>
                  after.notifications = az.notifications


(***************************************************************************)
(* Properties of the session cache of the OpenAI synthesizer.              *)
(***************************************************************************)
\* every section of the text of the session cache has been handed to the
\* player since the latest speak()
OaiAllSectionsPlayed ==
    /\ oai.sessionCache # NoCache
    /\ \A n \in 0..(NumSections(oai.sessionCache.text) - 1) :
           \E i \in 1..Len(oai.playLog) : oai.playLog[i].blob.ord = n

\* C26: after a speak() that hit the session cache, every section of the text
\* is eventually handed to the player, unless the backend fails a request or
\* the user gives another command first.
C26_CacheHitPlaysEverySection ==
    \A k \in 1..MaxOps :
        (oai.cacheHit /\ oai.ops = k)
            ~> (OaiAllSectionsPlayed \/ oai.failed \/ oai.ops > k)


\* the turn of the section the latest speakSection call was made for
AzCurrentTurn(w) == <<w.session, w.currentIndex - 1>>

\* C27: while a section is being spoken, every audio frame in the player's
\* buffer and the header pages kept for it come from the turn of that section,
\* and its synthesis is marked complete only by the turn.end of that turn.
C27_MessagesAffectOnlyTheirTurn ==
    (~az.isStopped /\ az.currentIndex > 0) =>
        /\ \A i \in 1..Len(az.audioQueue) :
               az.audioQueue[i].turn = AzCurrentTurn(az)
        /\ az.opusHeadPage \in {NoTurn, AzCurrentTurn(az)}
        /\ az.isSynthesisComplete => az.turnEnd = AzCurrentTurn(az)


(***************************************************************************)
(* Properties of the replay of the session cache by the REST synthesizers. *)
(***************************************************************************)
\* what has been handed to the player since the latest skipBackward or
\* replaySection began a replay is a run of consecutive sections of the text
ReplayedInOrder(w) ==
    w.replayFrom >= 0 =>
        \A i \in (w.replayFrom + 1)..Len(w.playLog) :
            w.playLog[i].blob.ord =
                w.playLog[w.replayFrom + 1].blob.ord + (i - w.replayFrom - 1)

\* C28: after skipBackward or replaySection has begun a replay of the cache at
\* index j, the sections handed to the player are j, j+1, ... in this order,
\* each once, also after the cached sections are exhausted, in both REST
\* synthesizers.
C28_ReplayPlaysEachSectionOnce ==
    /\ ReplayedInOrder(oai)
    /\ ReplayedInOrder(loc)


(***************************************************************************)
(* Properties of the prefetch of the OpenAI synthesizer.                   *)
(***************************************************************************)
\* C29: the prefetch requests tracked as in progress and the blobs waiting in
\* the prefetch queue are together at most MAX_PREFETCH.
C29_PrefetchWithinLimit ==
    Cardinality(oai.prefetchInProgress) + Len(oai.audioQueue) <= MAX_PREFETCH


\* C30: every blob held at index i of the session cache was synthesized from
\* section i of the text of the cache, with the voice and the model of the
\* cache; after a speak() with another text, voice or model the cache holds no
\* blob of the earlier one.
C30_CacheHoldsAudioOfItsText ==
    oai.sessionCache # NoCache =>
        \A i \in 0..(Len(oai.sessionCache.sections) - 1) :
            LET blob == ArrayGet(oai.sessionCache.sections, i)
            IN  blob # NoBlob =>
                    /\ blob.text = oai.sessionCache.text
                    /\ blob.ord = i
                    /\ blob.voice = oai.sessionCache.voice
                    /\ blob.model = oai.sessionCache.model


(***************************************************************************)
(* Properties of the AudioPlayer of the Azure synthesizer.                 *)
(***************************************************************************)
\* the audio bytes of a segment handed to the audio element
AzSegmentBytes(segment) ==
    IF segment = [empty |-> TRUE] THEN 0 ELSE AzQueuedSize(segment.audio)

\* a step in which the player starts a segment
AzSegmentStarts == Len(az'.playLog) = Len(az.playLog) + 1

\* the segment started by such a step
AzStarted == az'.playLog[Len(az'.playLog)]

\* C31: a segment started while synthesis is not marked complete is taken from
\* a queue of at least two minimum segment sizes, and holds at least one
\* minimum segment size of audio.
C31_StartsOnlyWithTwoSegmentsQueued ==
    [][(AzSegmentStarts /\ ~az'.isSynthesisComplete) =>
          /\ AzSegmentBytes(AzStarted) + AzQueuedSize(az'.audioQueue)
                 >= 2 * MIN_SEGMENT_SIZE
          /\ AzSegmentBytes(AzStarted) >= MIN_SEGMENT_SIZE]_vars

\* a segment of two chunks has been started before synthesis was complete,
\* and audio is left in the queue
C31_Witness ==
    /\ ~az.isSynthesisComplete
    /\ az.playLog # <<>>
    /\ az.isPlaying
    /\ Len(az.src.audio) = 2
    /\ AzSegmentBytes(az.src) = MIN_SEGMENT_SIZE
    /\ az.audioQueue # <<>>


C32_WitnessPaused ==
    /\ az.isPaused
    /\ az.isSynthesisComplete
    /\ AzQueuedSize(az.audioQueue) >= 2 * MIN_SEGMENT_SIZE


RECURSIVE AzPlayedAudio(_)
\* the chunks of the segments handed to the audio element, in play order
AzPlayedAudio(log) ==
    IF log = <<>> THEN <<>>
    ELSE (IF Head(log) = [empty |-> TRUE] THEN <<>> ELSE Head(log).audio)
             \o AzPlayedAudio(Tail(log))

\* the audio played followed by the audio waiting in the queue
AzPlayedThenQueued(w) == AzPlayedAudio(w.playLog) \o w.audioQueue

\* the chunk a queueAudioChunk step has queued, played at once or not
AzArrived == AzPlayedThenQueued(az')[Len(AzPlayedThenQueued(az'))]

\* C33: within a section (until prepareForNewSection resets the player), what
\* has been played followed by what waits in the queue changes only by a
\* chunk queued at its end: playing a segment moves
\* chunks from the queue to the element without skipping, repeating or
\* reordering a byte; and the audio of every chunk that is not dropped (the
\* chunk with the header pages first, chunks of audio after it) is queued.
C33_PlayedIsQueuedInOrder ==
    /\ [][\/ az' = Counted(AzResetAudioState(az))
          \/ AzPlayedThenQueued(az') = AzPlayedThenQueued(az)
          \/ /\ AzPlayedThenQueued(az') # <<>>
             /\ AzPlayedThenQueued(az') =
                    Append(AzPlayedThenQueued(az), AzArrived)
             /\ AzArrived.turn = <<0, az'.ops>>]_vars
    /\ [][\A chunk \in PlayerChunks :
            (/\ az' = Counted(AzQueueAudioChunk(az,
                         [hdr |-> chunk.hdr, len |-> chunk.len,
                          size |-> chunk.size, turn |-> <<0, az.ops + 1>>]))
             /\ chunk.size > 0
             /\ az.headersExtracted = ~chunk.hdr
             /\ AzQueuedSize(az.audioQueue) + chunk.len <= MAX_QUEUE_SIZE)
            => /\ Len(AzPlayedThenQueued(az')) =
                      Len(AzPlayedThenQueued(az)) + 1
               /\ AzArrived.len = chunk.size]_vars

\* three chunks have been queued one after the other and played in two
\* segments
C33_Witness ==
    /\ Len(az.playLog) = 2
    /\ Len(AzPlayedAudio(az.playLog)) = 3
    /\ \A i \in 1..3 : AzPlayedAudio(az.playLog)[i].turn = <<0, i + 1>>


(***************************************************************************)
(* Properties of the blob URLs of the AudioPlayer of the OpenAI            *)
(* synthesizer.                                                            *)
(***************************************************************************)
\* C34: in every reachable state of the OpenAI synthesizer, whatever the
\* order of playback start, playback end, rejection of a play() promise and
\* stop, at most one blob URL is made and not revoked, and it is one the
\* current session has made; and once stop() has run and the callbacks it
\* caused have run, no blob URL is made and not revoked
C34_BlobUrlsRevoked ==
    /\ Cardinality(oai.liveUrls) <= 1
    /\ \A url \in oai.liveUrls : url[1] = oai.session
    /\ (oai.afterStop /\ oai.rejecting = NoUrl) => oai.liveUrls = {}

\* stop() has run, no callback is due, and a blob URL is still not revoked
C34_Witness ==
    /\ oai.afterStop
    /\ oai.rejecting = NoUrl
    /\ oai.liveUrls # {}


\* a step is a call of queueAudioChunk with a chunk that does not fit into
\* the queue
AzChunkOverflows ==
    \E chunk \in PlayerChunks :
        /\ AzQueuedSize(az.audioQueue) + chunk.len > MAX_QUEUE_SIZE
        /\ az' = Counted(AzQueueAudioChunk(az,
                     [hdr |-> chunk.hdr, len |-> chunk.len, size |-> chunk.size,
                      turn |-> <<0, az.ops + 1>>]))

\* C35: in every reachable state of the AudioPlayer of the Azure synthesizer
\* the bytes held in its queue do not exceed MAX_QUEUE_SIZE; and a call of
\* queueAudioChunk with a chunk whose length added to the bytes in the queue
\* exceeds MAX_QUEUE_SIZE leaves the queue, the header pages and the parsing
\* state of the OggSegmenter, and what was handed to the audio element as
\* they were
C35_QueueWithinMaximum ==
    /\ [](AzQueuedSize(az.audioQueue) <= MAX_QUEUE_SIZE)
    /\ [][AzChunkOverflows =>
            /\ az'.audioQueue = az.audioQueue
            /\ az'.headersParsed = az.headersParsed
            /\ az'.opusHeadPage = az.opusHeadPage
            /\ az'.opusTagsPage = az.opusTagsPage
            /\ az'.headersExtracted = az.headersExtracted
            /\ az'.playLog = az.playLog
            /\ az'.src = az.src]_vars

\* a chunk has been handed to queueAudioChunk and dropped: the fourth call
\* found two chunks of 6 MiB and 4 KiB in the queue and left them there
C35_Witness ==
    /\ az.ops = 4
    /\ Len(az.audioQueue) = 2
    /\ AzQueuedSize(az.audioQueue) = 6291456 + 4096
    /\ az.audioQueue[2].turn = <<0, 3>>
    /\ az.isPlaying


(***************************************************************************)
(* Properties of the OggSegmenter given chunks of any kind.                *)
(***************************************************************************)
\* the number of bytes in the parse buffer of the segmenter of the state
ParseBufferLength == Len(call.seg.parseBuffer.bytes) + call.seg.parseBuffer.zeros

\* C36: after every processChunk call, whatever the sizes of the chunks
\* given, the parse buffer the OggSegmenter keeps holds at most
\* MAX_PARSE_BUFFER_SIZE bytes; and a call that finds bytes in the buffer
\* which with the chunk would exceed MAX_PARSE_BUFFER_SIZE does what a call
\* with the same chunk does to a segmenter whose buffer is empty
C36_ParseBufferWithinMaximum ==
    /\ [](call.fn = "chunks" => ParseBufferLength <= MAX_PARSE_BUFFER_SIZE)
    /\ [][(/\ call.fn = "chunks"
           /\ ~call.seg.headersParsed
           /\ ParseBufferLength > 0
           /\ ParseBufferLength + Len(ChunkOf(call'.given))
                  > MAX_PARSE_BUFFER_SIZE)
          => [call'.seg EXCEPT !.parseBuffer = UnpackBytes(@)]
               = ProcessChunk([call.seg EXCEPT !.parseBuffer = <<>>],
                              ChunkOf(call'.given)).seg]_vars

\* a chunk was given that with the 20 bytes in the buffer exceeded
\* MAX_PARSE_BUFFER_SIZE by one: the 20 bytes are gone and the chunk is kept
C36_Witness ==
    /\ call.fn = "chunks"
    /\ call.given = "over"
    /\ call.chunks = <<>>
    /\ call.seg.parseBuffer = [bytes |-> <<>>, zeros |-> MAX_PARSE_BUFFER_SIZE - 19]

\* a chunk of more than MAX_PARSE_BUFFER_SIZE bytes is kept in the buffer
C36_WitnessBig ==
    /\ call.fn = "chunks"
    /\ call.given = "big"
    /\ ParseBufferLength = MAX_PARSE_BUFFER_SIZE + 1


\* C37: whatever chunks processChunk has been given since the OggSegmenter
\* was constructed or reset, if isHeadersParsed() returns true then the
\* OpusHead page and the OpusTags page are both cached, and createSegment
\* with a chunk of audio does not return an empty segment
C37_HeadersParsedMeansBothCached ==
    (call.fn = "chunks" /\ IsHeadersParsed(ChunkSegmenter)) =>
        /\ ChunkSegmenter.opusHeadPage # Null
        /\ ChunkSegmenter.opusTagsPage # Null
        /\ CreateSegment(ChunkSegmenter, <<AudioBytes>>).ret # <<>>

\* the OpusHead page and the OpusTags page were given in this order, the
\* first of them in two pieces or whole, and both are cached
C37_Witness ==
    /\ call.fn = "chunks"
    /\ call.given = "tags"
    /\ IsHeadersParsed(ChunkSegmenter)
    /\ ChunkSegmenter.opusHeadPage = HeadPage
    /\ ChunkSegmenter.opusTagsPage = TagsPage


(***************************************************************************)
(* Properties of the lacing values of buildOggPage.                        *)
(***************************************************************************)
\* C38: for every segment the AudioPlayer of the Azure synthesizer has had
\* built from the chunks of its queue, the lacing values buildOggPage writes
\* for the audio payload are at most 255, so that the number of them stored
\* in the one byte page[26] is the number of lacing values written
C38_SegmentCountFitsOneByte ==
    \A i \in 1..Len(az.playLog) :
        LET segments == LacingValues(AzSegmentBytes(az.playLog[i]))
            segmentCount == Len(segments)
        IN  /\ segmentCount <= 255
            /\ segmentCount % 256 = segmentCount

\* playSegment has handed a payload of 16 KiB to createSegment: 65 lacing
\* values
C38_Witness ==
    /\ Len(az.playLog) = 1
    /\ AzSegmentBytes(az.playLog[1]) = 16384
    /\ Len(LacingValues(16384)) = 65


RECURSIVE SumOfRange(_, _, _)
\* the sum of the numbers of a list from place a to place b
SumOfRange(numbers, a, b) ==
    IF a > b THEN 0
    ELSE IF a = b THEN numbers[a]
    ELSE LET m == (a + b) \div 2
         IN  SumOfRange(numbers, a, m) + SumOfRange(numbers, m + 1, b)

\* C39: for every payload createSegment has had a page built for, the
\* lacing values buildOggPage writes sum to the length of the payload, every
\* lacing value but the last is 255, and if the length of the payload is a
\* positive multiple of 255 the last lacing value is 0
C39_LacingValuesEndPacket ==
    call.fn = "segmenter" =>
        \A i \in 1..Len(call.built) :
            LET length == SumOf(call.built[i].chunks)
                segments == LacingValues(length)
            IN  call.built[i].segment # <<>> =>
                  /\ SumOfRange(segments, 1, Len(segments)) = length
                  /\ \A k \in 1..(Len(segments) - 1) : segments[k] = 255
                  /\ (length > 0 /\ length % 255 = 0) =>
                        segments[Len(segments)] = 0

\* a page has been built for a payload of 510 bytes
C39_Witness ==
    /\ call.fn = "segmenter"
    /\ Len(call.built) = 2
    /\ call.built[2].chunks = <<510>>
    /\ call.built[2].segment # <<>>


(***************************************************************************)
(* Properties of the messages the Azure synthesizer sends.                 *)
(***************************************************************************)
\* the messages a step sends: the outbox begins anew with every speak
AzNewlySent ==
    IF az'.session = az.session
    THEN SubSeq(az'.outbox, Len(az.outbox) + 1, Len(az'.outbox))
    ELSE az'.outbox

\* the paths of the messages sent for a turn since the latest speak, in the
\* order in which they were sent
AzPathsSent(w, turn) ==
    LET sent == SelectSeq(w.outbox, LAMBDA m : m.turn = turn)
    IN  [i \in 1..Len(sent) |-> sent[i].path]

AzSectionPaths ==
    <<"speech.config", "synthesis.context", "text.piece", "text.end">>

\* C40: the messages the Azure synthesizer sends for a section are, in this
\* order, speech.config, synthesis.context, text.piece and text.end (or the
\* first two of them); text.piece is sent only in the step in which the
\* turn.start of that section is received; and no text.piece is sent by a
\* step that follows stop(), nor for a section of an earlier speak
C40_SectionMessagesInOrder ==
    /\ [](\A i \in 1..Len(az.outbox) :
             LET paths == AzPathsSent(az, az.outbox[i].turn)
             IN  /\ Len(paths) \in {2, 4}
                 /\ paths = SubSeq(AzSectionPaths, 1, Len(paths)))
    /\ [][\A i \in 1..Len(AzNewlySent) :
             AzNewlySent[i].path = "text.piece" =>
                 /\ az.wire # <<>>
                 /\ Head(az.wire) = [path |-> "turn.start",
                                     turn |-> AzNewlySent[i].turn]
                 /\ ~az.afterStop
                 /\ AzNewlySent[i].turn[1] = az.session]_vars

\* the text of the second section has been sent after its turn.start
C40_Witness ==
    /\ az.session = 1
    /\ AzPathsSent(az, <<1, 0>>) = AzSectionPaths
    /\ AzPathsSent(az, <<1, 1>>) = AzSectionPaths

====
